---- MODULE Spec2Model ----
(***************************************************************************)
(* Resume analysis pipeline of the Smart Resume Reviewer:                  *)
(*   analyzeResume -> callOpenAI -> validateAndStructureAnalysis ->        *)
(*   enhanceAnalysisWithJobInsights (src/unnamed/part_002, the resume      *)
(*   analyzer; src/src/lib/openai.ts; src/unnamed/part_003, the types and  *)
(*   the role catalog), the analysis endpoint POST that calls it          *)
(*   (src/unnamed/part_000), the pure functions generateQuickScore        *)
(*   (src/unnamed/part_002) and cleanExtractedText, validatePDFFile and    *)
(*   parsePDFBuffer (src/src/lib/pdf-parser.ts), the extraction endpoint   *)
(*   POST that calls them (src/src/app/api/parse-pdf/route.ts), and the    *)
(*   page HomePage with its handlers, interval and timeouts                *)
(*   (src/src/app/page.tsx).                                               *)
(*                                                                         *)
(* JavaScript values are records [t, n, d, s, a]: t is the type tag, n/d   *)
(* the value of a number (n that of a boolean), s the text of a string, a  *)
(* the elements of an array.  Numbers are fractions of integers below      *)
(* 2^31, with Infinity, -Infinity and -0; NaN has its own tag.  Strings    *)
(* are TLA+ strings, taken apart with Len, SubSeq and \o.                  *)
(***************************************************************************)
EXTENDS Integers, Sequences, FiniteSets, TLC

VARIABLES
    apiKey,        \* process.env.OPENAI_API_KEY
    pc,            \* position of the analyzeResume call
    resumeInput,   \* analyzeResume's resumeInput argument
    jobRole,       \* analyzeResume's jobRole argument
    openaiCalls,   \* requests sent to the external scoring service
    rawAnalysis,   \* what callOpenAI returned (the parsed payload)
    normalized,    \* result of validateAndStructureAnalysis (line 37)
    analysis,      \* result of analyzeResume (line 42)
    error,         \* message of the Error analyzeResume threw (line 46)
    request,       \* the request POST handles, and the await POST is at
    quickScore,    \* POST's quickScore (part_000:77)
    response,      \* the response POST returned
    input,         \* argument of the function a specification applies
    output,        \* what the function returned
    currentStep,   \* HomePage's currentStep (page.tsx:15)
    pageResume,    \* HomePage's resume (page.tsx:16)
    pageAnalysis,  \* HomePage's analysis (page.tsx:17)
    uploadStatus,  \* HomePage's uploadStatus (page.tsx:18-22)
    progressIntervals, \* the intervals setInterval started and nothing cleared
    awaits,        \* the handler calls suspended at an await
    timeouts,      \* the callbacks setTimeout scheduled that have not run
    started,       \* handler calls made so far
    fileReads      \* FileReader reads started whose onload has not run

\* State of the analysis endpoint
postVars == <<request, quickScore, response>>

\* State of the specifications of the pure functions
pureVars == <<input, output>>

\* State of the page
pageVars == <<currentStep, pageResume, pageAnalysis, uploadStatus,
              progressIntervals, awaits, timeouts, started, fileReads>>

vars == <<apiKey, pc, resumeInput, jobRole, openaiCalls, rawAnalysis,
          normalized, analysis, error, request, quickScore, response,
          input, output, currentStep, pageResume, pageAnalysis, uploadStatus,
          progressIntervals, awaits, timeouts, started, fileReads>>

----------------------------------------------------------------------------
(* JavaScript values *)

Undefined == [t |-> "undefined", n |-> 0, d |-> 1, s |-> "", a |-> <<>>]
Null      == [t |-> "null", n |-> 0, d |-> 1, s |-> "", a |-> <<>>]
NaN       == [t |-> "nan", n |-> 0, d |-> 1, s |-> "", a |-> <<>>]
EmptyObj  == [t |-> "object", n |-> 0, d |-> 1, s |-> "", a |-> <<>>]
Num(k)    == [t |-> "number", n |-> k, d |-> 1, s |-> "", a |-> <<>>]
Str(x)    == [t |-> "string", n |-> 0, d |-> 1, s |-> x, a |-> <<>>]
Bool(b)   == [t |-> "boolean", n |-> IF b THEN 1 ELSE 0, d |-> 1, s |-> "",
              a |-> <<>>]
Arr(xs)   == [t |-> "array", n |-> 0, d |-> 1, s |-> "", a |-> xs]

\* The abrupt completion of a conversion that throws a TypeError with this
\* message.
Throw(message) == [t |-> "throw", n |-> 0, d |-> 1, s |-> message, a |-> <<>>]

\* A number is the fraction n/d in lowest terms with d >= 1.  Infinity is
\* 1/0, -Infinity is -1/0 and -0 is 0/-1.
PosInfinity == [t |-> "number", n |-> 1, d |-> 0, s |-> "", a |-> <<>>]
NegInfinity == [t |-> "number", n |-> 0 - 1, d |-> 0, s |-> "", a |-> <<>>]
NegZero     == [t |-> "number", n |-> 0, d |-> 0 - 1, s |-> "", a |-> <<>>]

\* ToBoolean, as `||`, `!` and `if` apply it.
Truthy(v) ==
    CASE v.t \in {"undefined", "null", "nan"} -> FALSE
      [] v.t \in {"boolean", "number"} -> v.n # 0
      [] v.t = "string" -> v.s # ""
      [] OTHER -> TRUE

\* a || b
Or(v, w) == IF Truthy(v) THEN v ELSE w

IsArray(v) == v.t = "array"

\* obj?.field and obj.field of a non-null value: the property of an object
\* that has it, undefined for an object without it, for a primitive, for an
\* array and for null?. (none of the fields read here is a property of a
\* string, a number, a boolean or an array).
Get(obj, field) ==
    IF obj.t = "object" /\ field \in DOMAIN obj THEN obj[field] ELSE Undefined

----------------------------------------------------------------------------
(* Strings *)

Digits == "0123456789"

LowerMap ==
    [c \in {"A", "B", "C", "D", "E", "F", "G", "H", "I", "J", "K", "L", "M",
            "N", "O", "P", "Q", "R", "S", "T", "U", "V", "W", "X", "Y", "Z"} |->
        CASE c = "A" -> "a" [] c = "B" -> "b" [] c = "C" -> "c" [] c = "D" -> "d"
          [] c = "E" -> "e" [] c = "F" -> "f" [] c = "G" -> "g" [] c = "H" -> "h"
          [] c = "I" -> "i" [] c = "J" -> "j" [] c = "K" -> "k" [] c = "L" -> "l"
          [] c = "M" -> "m" [] c = "N" -> "n" [] c = "O" -> "o" [] c = "P" -> "p"
          [] c = "Q" -> "q" [] c = "R" -> "r" [] c = "S" -> "s" [] c = "T" -> "t"
          [] c = "U" -> "u" [] c = "V" -> "v" [] c = "W" -> "w" [] c = "X" -> "x"
          [] c = "Y" -> "y" [] c = "Z" -> "z"]

CharAt(s, i) == SubSeq(s, i, i)

\* Leaves the letter case of the text as it is.
KeepCase(s) == s

\* String.prototype.toLowerCase (ASCII), character by character: the
\* text is halved until single characters are left.
RECURSIVE ToLowerCase(_)
ToLowerCase(s) ==
    IF Len(s) = 0 THEN ""
    ELSE IF Len(s) = 1
         THEN (IF s \in DOMAIN LowerMap THEN LowerMap[s] ELSE s)
    ELSE ToLowerCase(SubSeq(s, 1, Len(s) \div 2))
             \o ToLowerCase(SubSeq(s, (Len(s) \div 2) + 1, Len(s)))

\* String.prototype.includes
Includes(hay, needle) ==
    \E i \in 0..(Len(hay) - Len(needle)) :
        SubSeq(hay, i + 1, i + Len(needle)) = needle

\* U+000B, the vertical tab
VerticalTab == ""

\* \s of a regular expression and the white space trim() removes, of the
\* characters a string of the model holds
IsSpace(c) == c \in {" ", "\t", "\n", "\r", "\f", VerticalTab}

\* Leaves the white space at the ends of the text.
NoTrim(s) == s

\* String.prototype.trim
RECURSIVE TrimStart(_)
TrimStart(s) ==
    IF Len(s) > 0 /\ IsSpace(CharAt(s, 1)) THEN TrimStart(SubSeq(s, 2, Len(s)))
    ELSE s

RECURSIVE TrimEnd(_)
TrimEnd(s) ==
    IF Len(s) > 0 /\ IsSpace(CharAt(s, Len(s)))
    THEN TrimEnd(SubSeq(s, 1, Len(s) - 1))
    ELSE s

Trim(s) == TrimEnd(TrimStart(s))

\* s.replace(/\s+/g, '-'): every run of white space becomes one hyphen
RECURSIVE HyphenateFrom(_, _)
HyphenateFrom(s, i) ==
    IF i > Len(s) THEN ""
    ELSE IF IsSpace(CharAt(s, i))
         THEN (IF i > 1 /\ IsSpace(CharAt(s, i - 1)) THEN "" ELSE "-")
                  \o HyphenateFrom(s, i + 1)
         ELSE CharAt(s, i) \o HyphenateFrom(s, i + 1)

\* s.replace(/\s/g, '-'): a hyphen for every white space character.
RECURSIVE HyphenateEach(_)
HyphenateEach(s) ==
    IF Len(s) = 0 THEN ""
    ELSE (IF IsSpace(CharAt(s, 1)) THEN "-" ELSE CharAt(s, 1))
             \o HyphenateEach(SubSeq(s, 2, Len(s)))

Hyphenate(s) == HyphenateFrom(s, 1)

\* Array.prototype.join of an array of strings
RECURSIVE JoinFrom(_, _, _)
JoinFrom(xs, sep, i) ==
    IF i > Len(xs) THEN ""
    ELSE (IF i > 1 THEN sep ELSE "") \o xs[i] \o JoinFrom(xs, sep, i + 1)

Join(xs, sep) == JoinFrom(xs, sep, 1)

----------------------------------------------------------------------------
(* Numbers *)

DigitValue(c) == CHOOSE d \in 0..9 : CharAt(Digits, d + 1) = c

IsDigit(c) == Len(c) = 1 /\ Includes(Digits, c)

RECURSIVE AllDigitsFrom(_, _)
AllDigitsFrom(s, i) ==
    i > Len(s) \/ (IsDigit(CharAt(s, i)) /\ AllDigitsFrom(s, i + 1))

RECURSIVE DigitsValue(_, _, _)
DigitsValue(s, i, acc) ==
    IF i > Len(s) THEN acc
    ELSE DigitsValue(s, i + 1, 10 * acc + DigitValue(CharAt(s, i)))

Abs(k) == IF k < 0 THEN 0 - k ELSE k

RECURSIVE Gcd(_, _)
Gcd(a, b) == IF b = 0 THEN a ELSE Gcd(b, a % b)

RECURSIVE Pow10(_)
Pow10(k) == IF k = 0 THEN 1 ELSE 10 * Pow10(k - 1)

\* n/d with both divided by g
Reduced(n, d, g) ==
    [t |-> "number", n |-> n \div g, d |-> d \div g, s |-> "", a |-> <<>>]

\* The number n/d, d >= 1, in lowest terms
Ratio(n, d) == Reduced(n, d, Gcd(Abs(n), d))

\* -x
Negate(x) ==
    IF x.n = 0 THEN (IF x.d = 1 THEN NegZero ELSE Num(0))
    ELSE [x EXCEPT !.n = 0 - x.n]

\* x < y of two numbers; -0 and 0 are equal
NumLess(x, y) ==
    IF x.d = 0 /\ y.d = 0 THEN x.n < y.n
    ELSE x.n * Abs(y.d) < y.n * Abs(x.d)

RECURSIVE NatToString(_)
NatToString(k) ==
    IF k < 10 THEN CharAt(Digits, k + 1)
    ELSE NatToString(k \div 10) \o CharAt(Digits, (k % 10) + 1)

\* The digits after the point of r/d, for r < d and d a divisor of a power
\* of ten
RECURSIVE FractionDigits(_, _)
FractionDigits(r, d) ==
    IF r = 0 THEN ""
    ELSE CharAt(Digits, ((10 * r) \div d) + 1) \o FractionDigits((10 * r) % d, d)

\* n/d >= 1/1000000 in decimal notation
DecimalText(n, d) ==
    NatToString(n \div d)
        \o (IF n % d = 0 THEN "" ELSE "." \o FractionDigits(n % d, d))

\* The least e with n/d * 10^e >= 1
RECURSIVE LeadingZeros(_, _, _)
LeadingZeros(n, d, e) ==
    IF n * Pow10(e) >= d THEN e ELSE LeadingZeros(n, d, e + 1)

\* The digits of n/d > 0, in exponent notation when e, the number of
\* places the first digit is behind the point, is more than 6
PositiveToString(n, d, e) ==
    IF e > 6 THEN DecimalText(n * Pow10(e), d) \o "e-" \o NatToString(e)
    ELSE DecimalText(n, d)

\* Number::toString of a number that is not NaN: an integer is its digits,
\* a fraction the decimal notation, in exponent notation below 1e-6.
NumberToString(x) ==
    IF x.d = 0 THEN (IF x.n > 0 THEN "Infinity" ELSE "-Infinity")
    ELSE IF x.n = 0 THEN "0"
    ELSE (IF x.n < 0 THEN "-" ELSE "")
             \o PositiveToString(Abs(x.n), x.d, LeadingZeros(Abs(x.n), x.d, 0))

\* The TypeError of OrdinaryToPrimitive for an object with neither a
\* callable toString nor a valueOf that returns a primitive.
CannotConvert == "Cannot convert object to primitive value"

\* A conversion to text that returned, and one that threw
Text(text) == [threw |-> FALSE, text |-> text]
Thrown(message) == [threw |-> TRUE, error |-> message]

\* The texts of an element and of the elements after it with the separator
\* between them; the conversion of the element comes first.
JoinedWith(sep, first, rest) ==
    IF first.threw THEN first
    ELSE IF rest.threw THEN rest
    ELSE Text(first.text \o sep \o rest.text)

\* String(x) of an array element, as Array.prototype.join applies it: null
\* and undefined give the empty string, an array the String of its elements
\* joined by ",".  An object is "[object Object]" by the toString it
\* inherits; a property of its own named toString, which in parsed JSON is
\* never a function, leaves it the inherited valueOf, which returns the
\* object, or its own valueOf, no function either: the conversion throws.
RECURSIVE ElementToString(_)
RECURSIVE JoinElements(_, _)
ElementToString(v) ==
    CASE v.t = "string" -> Text(v.s)
      [] v.t = "number" -> Text(NumberToString(v))
      [] v.t = "boolean" -> Text(IF v.n = 1 THEN "true" ELSE "false")
      [] v.t = "nan" -> Text("NaN")
      [] v.t = "object" -> IF "toString" \in DOMAIN v THEN Thrown(CannotConvert)
                           ELSE Text("[object Object]")
      [] v.t = "array" -> JoinElements(v.a, ",")
      [] OTHER -> Text("")

\* Array.prototype.join of the elements xs
JoinElements(xs, sep) ==
    IF Len(xs) = 0 THEN Text("")
    ELSE IF Len(xs) = 1 THEN ElementToString(xs[1])
    ELSE JoinedWith(sep, ElementToString(xs[1]), JoinElements(Tail(xs), sep))

HexDigits == "0123456789abcdef"

\* The value of a digit of a literal in the base, -1 for any other character
DigitOf(lower, base) ==
    IF \E k \in 1..base : CharAt(HexDigits, k) = lower
    THEN (CHOOSE k \in 1..base : CharAt(HexDigits, k) = lower) - 1
    ELSE 0 - 1

RadixDigit(c, base) == DigitOf(ToLowerCase(c), base)

RECURSIVE RadixValue(_, _, _, _)
RadixValue(s, i, base, acc) ==
    IF i > Len(s) THEN acc
    ELSE RadixValue(s, i + 1, base, base * acc + RadixDigit(CharAt(s, i), base))

\* The base of 0x, 0b and 0o literals, 0 for any other text
RadixOf(s) ==
    IF Len(s) < 2 \/ CharAt(s, 1) # "0" THEN 0
    ELSE CASE CharAt(s, 2) \in {"x", "X"} -> 16
           [] CharAt(s, 2) \in {"b", "B"} -> 2
           [] CharAt(s, 2) \in {"o", "O"} -> 8
           [] OTHER -> 0

\* The first position of one of the characters in the text, 0 if there is
\* none
IndexOfAny(s, chars) ==
    IF \E i \in 1..Len(s) : CharAt(s, i) \in chars
    THEN CHOOSE i \in 1..Len(s) :
             /\ CharAt(s, i) \in chars
             /\ \A k \in 1..(i - 1) : CharAt(s, k) \notin chars
    ELSE 0

\* The text without its sign
Unsigned(s) ==
    IF Len(s) > 0 /\ CharAt(s, 1) \in {"+", "-"} THEN SubSeq(s, 2, Len(s))
    ELSE s

\* A text of the form [+-]digits
IsSignedDigits(s) == Unsigned(s) # "" /\ AllDigitsFrom(Unsigned(s), 1)

SignedDigitsValue(s) ==
    IF CharAt(s, 1) = "-" THEN 0 - DigitsValue(s, 2, 0)
    ELSE DigitsValue(Unsigned(s), 1, 0)

\* m * 10^shift for m with the given number of digits: 1e309 or more is
\* Infinity, less than 1e-324 is 0.
Scaled(m, digits, shift) ==
    IF m = 0 THEN Num(0)
    ELSE IF digits + shift > 309 THEN PosInfinity
    ELSE IF digits + shift < 0 - 323 THEN Num(0)
    ELSE IF shift >= 0 THEN Num(m * Pow10(shift))
    ELSE Ratio(m, Pow10(0 - shift))

\* The number of the digits before and after the point and the exponent
DecimalValue(whole, fraction, exponent) ==
    IF \/ whole \o fraction = ""
       \/ ~AllDigitsFrom(whole, 1)
       \/ ~AllDigitsFrom(fraction, 1)
       \/ ~IsSignedDigits(exponent)
    THEN NaN
    ELSE Scaled(DigitsValue(whole \o fraction, 1, 0),
                Len(NatToString(DigitsValue(whole \o fraction, 1, 0))),
                SignedDigitsValue(exponent) - Len(fraction))

\* The mantissa taken apart at its point
SplitAtPoint(mantissa, point, exponent) ==
    IF point = 0 THEN DecimalValue(mantissa, "", exponent)
    ELSE DecimalValue(SubSeq(mantissa, 1, point - 1),
                      SubSeq(mantissa, point + 1, Len(mantissa)), exponent)

SplitMantissa(mantissa, exponent) ==
    SplitAtPoint(mantissa, IndexOfAny(mantissa, {"."}), exponent)

\* The literal taken apart at its e or E
SplitAtExponent(s, ePos) ==
    IF ePos = 0 THEN SplitMantissa(s, "0")
    ELSE SplitMantissa(SubSeq(s, 1, ePos - 1), SubSeq(s, ePos + 1, Len(s)))

\* The number of an unsigned decimal literal: digits, an optional point and
\* digits, an optional exponent; NaN for any other text.
DecimalLiteral(s) == SplitAtExponent(s, IndexOfAny(s, {"e", "E"}))

\* The integer of a 0x, 0b or 0o literal, NaN without digits of the base
RadixLiteral(t, base) ==
    IF Len(t) > 2 /\ \A i \in 3..Len(t) : RadixDigit(CharAt(t, i), base) >= 0
    THEN Num(RadixValue(t, 3, base, 0))
    ELSE NaN

\* Infinity or a decimal literal
UnsignedLiteral(body) ==
    IF body = "Infinity" THEN PosInfinity ELSE DecimalLiteral(body)

\* The literal with the sign in front of it
SignedLiteral(negative, unsigned) ==
    IF unsigned.t = "nan" THEN NaN
    ELSE IF negative THEN Negate(unsigned)
    ELSE unsigned

\* The number of a text without white space at its ends
TrimmedToNumber(t) ==
    IF t = "" THEN Num(0)
    ELSE IF RadixOf(t) > 0 THEN RadixLiteral(t, RadixOf(t))
    ELSE SignedLiteral(CharAt(t, 1) = "-", UnsignedLiteral(Unsigned(t)))

\* ToNumber of a string: white space is trimmed; the empty string is 0; a
\* 0x, 0b or 0o literal without a sign is its integer; Infinity and a
\* decimal literal take a sign; any other text gives NaN.
StringToNumber(s) == TrimmedToNumber(Trim(s))

\* ToNumber of a primitive
PrimitiveToNumber(v) ==
    CASE v.t = "number" -> v
      [] v.t = "boolean" -> Num(v.n)
      [] v.t = "null" -> Num(0)
      [] v.t = "string" -> StringToNumber(v.s)
      [] OTHER -> NaN

\* The number of the text an array or an object was converted to
TextToNumber(converted) ==
    IF converted.threw THEN Throw(converted.error)
    ELSE StringToNumber(converted.text)

\* ToNumber, as Math.min and Math.max apply it to their arguments.  An
\* array or an object is first converted to its string: the elements of
\* the array joined by ",", "[object Object]" for an object; the
\* conversion throws for an object with a toString property of its own.
ToNumber(v) ==
    IF v.t \in {"array", "object"} THEN TextToNumber(ElementToString(v))
    ELSE PrimitiveToNumber(v)

\* The smaller of two numbers, NaN if one is NaN: -0 is the smaller of 0
\* and -0.  The conversion of an argument that throws ends the call, the
\* first argument's first.
MinOf(a, b) ==
    IF a.t = "throw" THEN a
    ELSE IF b.t = "throw" THEN b
    ELSE IF a.t = "nan" \/ b.t = "nan" THEN NaN
    ELSE IF NumLess(a, b) THEN a
    ELSE IF NumLess(b, a) THEN b
    ELSE IF b = NegZero THEN b ELSE a

\* The larger of two numbers, NaN if one is NaN: 0 is the larger of 0 and
\* -0
MaxOf(a, b) ==
    IF a.t = "throw" THEN a
    ELSE IF b.t = "throw" THEN b
    ELSE IF a.t = "nan" \/ b.t = "nan" THEN NaN
    ELSE IF NumLess(b, a) THEN a
    ELSE IF NumLess(a, b) THEN b
    ELSE IF a = NegZero THEN b ELSE a

\* Math.min of two arguments
MathMin(x, y) == MinOf(ToNumber(x), ToNumber(y))

\* Math.max of two arguments
MathMax(x, y) == MaxOf(ToNumber(x), ToNumber(y))

----------------------------------------------------------------------------
(* The role catalog *)

PREDEFINED_JOB_ROLES == <<
    [id |-> "data-scientist", title |-> "Data Scientist",
     category |-> "Technology",
     commonSkills |-> <<"Python", "R", "SQL", "Machine Learning", "Statistics",
                        "Data Visualization", "TensorFlow", "Pandas", "Numpy">>],
    [id |-> "product-manager", title |-> "Product Manager",
     category |-> "Management",
     commonSkills |-> <<"Product Strategy", "Agile/Scrum", "User Research",
                        "Data Analysis", "Stakeholder Management",
                        "Roadmap Planning", "A/B Testing">>],
    [id |-> "software-engineer", title |-> "Software Engineer",
     category |-> "Technology",
     commonSkills |-> <<"Programming", "JavaScript", "Python", "Git", "APIs",
                        "Database Design", "Testing", "System Design",
                        "DevOps">>],
    [id |-> "ux-designer", title |-> "UX Designer",
     category |-> "Design",
     commonSkills |-> <<"User Research", "Wireframing", "Prototyping", "Figma",
                        "Adobe Creative Suite", "Information Architecture",
                        "Usability Testing">>],
    [id |-> "marketing-manager", title |-> "Marketing Manager",
     category |-> "Marketing",
     commonSkills |-> <<"Digital Marketing", "Content Strategy", "SEO/SEM",
                        "Social Media", "Analytics", "Campaign Management",
                        "Brand Management">>],
    [id |-> "business-analyst", title |-> "Business Analyst",
     category |-> "Analysis",
     commonSkills |-> <<"Requirements Analysis", "Process Mapping", "SQL",
                        "Data Analysis", "Stakeholder Communication",
                        "Project Management", "Documentation">>],
    [id |-> "sales-representative", title |-> "Sales Representative",
     category |-> "Sales",
     commonSkills |-> <<"Lead Generation", "Customer Relationship Management",
                        "Negotiation", "Sales Process", "CRM Software",
                        "Communication", "Cold Calling">>],
    [id |-> "project-manager", title |-> "Project Manager",
     category |-> "Management",
     commonSkills |-> <<"Project Planning", "Risk Management", "Team Leadership",
                        "Agile/Scrum", "Budget Management",
                        "Stakeholder Communication", "Timeline Management">>] >>

----------------------------------------------------------------------------
(* Response Normalizer *)

DefaultSummary == "Unable to generate analysis summary."

MaxOverallScore == 100
MaxTenScore == 10

\* Math.max(0, m) for the outcome m of Math.min, its argument: Math.max is
\* not called when Math.min threw.
AtLeastZero(m) == IF m.t = "throw" THEN m ELSE MathMax(Num(0), m)

\* Math.max(0, Math.min(hi, x || 0)): a number, NaN, or the TypeError of
\* the conversion of x
ClampScore(x, hi) == AtLeastZero(MathMin(Num(hi), Or(x, Num(0))))

\* A normalizer that recovers a value that is not an array as a list of one.
ArrayOrSingleton(x) ==
    IF IsArray(x) THEN x.a ELSE IF Truthy(x) THEN <<x>> ELSE <<>>

\* A normalizer that keeps a value that is not an array as the one entry of
\* the list.
ArrayOrWrapped(x) == IF IsArray(x) THEN x.a ELSE <<x>>

\* Array.isArray(x) ? x : []
ArrayOrEmpty(x) == IF IsArray(x) THEN x.a ELSE <<>>

\* The object of lines 78-96, its three scores computed: the first score
\* whose conversion threw ends the function with its TypeError.
StructuredAnalysis(raw, kf, ja, overallScore, atsCompatibility, matchScore) ==
    IF overallScore.t = "throw" THEN Thrown(overallScore.s)
    ELSE IF atsCompatibility.t = "throw" THEN Thrown(atsCompatibility.s)
    ELSE IF matchScore.t = "throw" THEN Thrown(matchScore.s)
    ELSE [threw |-> FALSE,
          value |->
            [overallScore |-> overallScore,
             maxOverallScore |-> 100,
             summary |-> Or(Get(raw, "summary"), Str(DefaultSummary)),
             sections |-> ArrayOrEmpty(Get(raw, "sections")),
             keyFindings |->
               [strengths |-> ArrayOrEmpty(Get(kf, "strengths")),
                majorIssues |-> ArrayOrEmpty(Get(kf, "majorIssues")),
                missingSkills |-> ArrayOrEmpty(Get(kf, "missingSkills")),
                atsCompatibility |-> atsCompatibility,
                improvementPriority |->
                    ArrayOrEmpty(Get(kf, "improvementPriority"))],
             jobAlignment |->
               [matchScore |-> matchScore,
                relevantExperience |->
                    ArrayOrEmpty(Get(ja, "relevantExperience")),
                skillGaps |-> ArrayOrEmpty(Get(ja, "skillGaps")),
                recommendations |->
                    ArrayOrEmpty(Get(ja, "recommendations"))]]]

\* validateAndStructureAnalysis: reading a property of null or undefined
\* (rawAnalysis.overallScore, line 79) throws a TypeError, and so does
\* Math.min (lines 79, 87 and 91) for a score it cannot convert.
validateAndStructureAnalysis(raw) ==
    IF raw.t \in {"null", "undefined"}
    THEN Thrown("Cannot read properties of " \o raw.t
                    \o " (reading 'overallScore')")
    ELSE StructuredAnalysis(
             raw, Get(raw, "keyFindings"), Get(raw, "jobAlignment"),
             ClampScore(Get(raw, "overallScore"), MaxOverallScore),
             ClampScore(Get(Get(raw, "keyFindings"), "atsCompatibility"),
                        MaxTenScore),
             ClampScore(Get(Get(raw, "jobAlignment"), "matchScore"),
                        MaxTenScore))

----------------------------------------------------------------------------
(* Role-Insight Enricher *)

\* The TypeError of x.toLowerCase() for an x that is not a string.
NotAString(v, what) ==
    IF v.t \in {"null", "undefined"}
    THEN "Cannot read properties of " \o v.t \o " (reading 'toLowerCase')"
    ELSE what \o ".toLowerCase is not a function"

\* section.name.toLowerCase().includes(word): "true", "false" or "throw"
SectionNameIncludes(section, word) ==
    IF section.t \in {"null", "undefined"} THEN "throw"
    ELSE IF Get(section, "name").t # "string" THEN "throw"
    ELSE IF Includes(ToLowerCase(Get(section, "name").s), word) THEN "true"
    ELSE "false"

SectionNameError(section) ==
    IF section.t \in {"null", "undefined"}
    THEN "Cannot read properties of " \o section.t \o " (reading 'name')"
    ELSE NotAString(Get(section, "name"), "section.name")

\* Index of the first section whose lower-cased name includes word, as
\* Array.prototype.find and some visit the entries: 0 when there is none,
\* -k when entry k makes the callback throw.
RECURSIVE FindSectionFrom(_, _, _)
FindSectionFrom(sections, word, i) ==
    IF i > Len(sections) THEN 0
    ELSE LET r == SectionNameIncludes(sections[i], word)
         IN  IF r = "throw" THEN 0 - i
             ELSE IF r = "true" THEN i
             ELSE FindSectionFrom(sections, word, i + 1)

FindSection(sections, word) == FindSectionFrom(sections, word, 1)

\* missingSkills.some(missing => missing.toLowerCase().includes(word)):
\* "true", "false" or "throw" (an entry that is not a string, reached before
\* an entry that includes word).
RECURSIVE SomeMissingIncludesFrom(_, _, _)
SomeMissingIncludesFrom(missing, word, i) ==
    IF i > Len(missing) THEN "false"
    ELSE IF missing[i].t # "string" THEN "throw"
    ELSE IF Includes(ToLowerCase(missing[i].s), word) THEN "true"
    ELSE SomeMissingIncludesFrom(missing, word, i + 1)

\* A check that takes only an entry equal to word, not one that includes it.
SomeMissingEquals(missing, word) ==
    IF \E k \in 1..Len(missing) : missing[k].t # "string" THEN "throw"
    ELSE IF \E k \in 1..Len(missing) : ToLowerCase(missing[k].s) = word
         THEN "true"
    ELSE "false"

SomeMissingIncludes(missing, word) == SomeMissingIncludesFrom(missing, word, 1)

RECURSIVE FirstNonStringFrom(_, _)
FirstNonStringFrom(xs, i) ==
    IF i > Len(xs) THEN Undefined
    ELSE IF xs[i].t # "string" THEN xs[i]
    ELSE FirstNonStringFrom(xs, i + 1)

RECURSIVE MapToLowerCase(_)
MapToLowerCase(xs) ==
    IF xs = <<>> THEN <<>>
    ELSE <<ToLowerCase(Head(xs))>> \o MapToLowerCase(Tail(xs))

\* role.title.toLowerCase() of every catalog entry (line 108) and
\* predefinedRole.commonSkills.map(skill => skill.toLowerCase()) (line 114)
RoleTitlesLower ==
    [i \in 1..Len(PREDEFINED_JOB_ROLES) |->
        ToLowerCase(PREDEFINED_JOB_ROLES[i].title)]
RoleSkillsLower ==
    [i \in 1..Len(PREDEFINED_JOB_ROLES) |->
        MapToLowerCase(PREDEFINED_JOB_ROLES[i].commonSkills)]

\* The role of PREDEFINED_JOB_ROLES.find (lines 107-110): the index of the
\* first entry whose lower-cased title is the lower-cased jobRole or whose
\* id is the lower-cased jobRole with white space runs hyphenated; 0 when
\* no entry matches.
\* A lookup that takes a job role that holds a catalog title for a match.
RoleMatchesWithin(i, lowered, slug) ==
    \/ Includes(lowered, RoleTitlesLower[i])
    \/ PREDEFINED_JOB_ROLES[i].id = slug

\* lowered is jobRole.toLowerCase(), slug is lowered.replace(/\s+/g, '-').
RoleMatches(i, lowered, slug) ==
    \/ RoleTitlesLower[i] = lowered
    \/ PREDEFINED_JOB_ROLES[i].id = slug

RECURSIVE FindRoleFrom(_, _, _)
FindRoleFrom(lowered, slug, i) ==
    IF i > Len(PREDEFINED_JOB_ROLES) THEN 0
    ELSE IF RoleMatches(i, lowered, slug) THEN i
    ELSE FindRoleFrom(lowered, slug, i + 1)

FindRole(jobRoleText) ==
    FindRoleFrom(ToLowerCase(jobRoleText), Hyphenate(ToLowerCase(jobRoleText)), 1)

\* lines 114-120: the lower-cased catalog skills that are neither in the
\* skills section's feedback text nor in an entry of missingSkills;
\* threw when missingSkills.some throws for a skill the text does not hold.
\* commonSkills holds lower-cased text, which skill.toLowerCase() (lines
\* 118-119) leaves as it is.
RECURSIVE MissingCommonSkillsFrom(_, _, _, _)
MissingCommonSkillsFrom(commonSkills, resumeText, missing, i) ==
    IF i > Len(commonSkills) THEN [threw |-> FALSE, skills |-> <<>>]
    ELSE IF Includes(resumeText, commonSkills[i])
         THEN MissingCommonSkillsFrom(commonSkills, resumeText, missing, i + 1)
    ELSE LET r    == SomeMissingIncludes(missing, commonSkills[i])
             rest == MissingCommonSkillsFrom(commonSkills, resumeText, missing,
                                             i + 1)
         IN  IF r = "throw" THEN [threw |-> TRUE, skills |-> <<>>]
             ELSE IF rest.threw THEN rest
             ELSE IF r = "true" THEN rest
             ELSE [threw |-> FALSE, skills |-> <<commonSkills[i]>> \o rest.skills]

\* predefinedRole.commonSkills.find(cs => cs.toLowerCase() === skill) || skill
RECURSIVE OriginalSkillFrom(_, _, _, _)
OriginalSkillFrom(catalogSkills, loweredSkills, skill, i) ==
    IF i > Len(catalogSkills) THEN skill
    ELSE IF loweredSkills[i] = skill THEN catalogSkills[i]
    ELSE OriginalSkillFrom(catalogSkills, loweredSkills, skill, i + 1)

\* lines 124-126: the catalog spelling of each missing skill, without the
\* ones missingSkills already holds as a string (Array.prototype.includes).
RECURSIVE NewMissingSkills(_, _, _, _)
NewMissingSkills(missingCommonSkills, catalogSkills, loweredSkills, missing) ==
    IF missingCommonSkills = <<>> THEN <<>>
    ELSE LET skill == OriginalSkillFrom(catalogSkills, loweredSkills,
                                        Head(missingCommonSkills), 1)
             rest  == NewMissingSkills(Tail(missingCommonSkills), catalogSkills,
                                       loweredSkills, missing)
         IN  IF \E k \in 1..Len(missing) : missing[k] = Str(skill) THEN rest
             ELSE <<Str(skill)>> \o rest

\* The rule table of generateRoleSpecificRecommendations (lines 152-192)
RecTechnologyProjects(role) ==
    "Consider adding more specific technical projects that demonstrate "
        \o Join(SubSeq(role.commonSkills, 1, 3), ", ") \o " experience"
RecTechnologySkills ==
    "Ensure your technical skills section includes both the technologies you used and the context/projects where you applied them"
RecManagementLeadership ==
    "Add specific examples of team leadership, project management, and stakeholder communication achievements"
RecManagementImpact ==
    "Quantify your management impact with team sizes, budget responsibilities, and measurable outcomes"
RecDesignPortfolio ==
    "Include a portfolio link and mention specific design tools, methodologies, and user research experience"
RecDesignProcess ==
    "Highlight user-centered design processes and measurable improvements to user experience"
RecMarketingMetrics ==
    "Include specific metrics for campaigns, growth rates, and ROI to demonstrate marketing impact"
RecMarketingProjects ==
    "Add a projects section showcasing successful marketing campaigns and their measurable results"
RecSalesNumbers ==
    "Quantify sales achievements with specific numbers, percentages, and quota attainment records"
RecSalesRelationships ==
    "Highlight relationship-building skills and experience with CRM systems and sales processes"
RecAnalysisMethods ==
    "Emphasize analytical methodologies, data sources, and business impact of your analytical work"
RecAnalysisSql ==
    "Consider adding SQL, Excel, or other data analysis tools to strengthen your technical profile"

TechnologyThreshold == 70
DesignThreshold == 75
MaxRecommendations == 3

\* A threshold test with <= for <.
ScoreAtMost(score, k) == score.t = "number" /\ ~NumLess(Num(k), score)

\* analysis.overallScore < k: false when overallScore is NaN
ScoreBelow(score, k) == score.t = "number" /\ NumLess(score, Num(k))

\* Array.from(new Set(xs)): the first occurrence of each string, in order
RECURSIVE Dedupe(_)
Dedupe(xs) ==
    IF xs = <<>> THEN <<>>
    ELSE LET init == Dedupe(SubSeq(xs, 1, Len(xs) - 1))
             last == xs[Len(xs)]
         IN  IF \E k \in 1..Len(init) : init[k] = last THEN init
             ELSE Append(init, last)

\* xs.slice(0, k)
Slice0(xs, k) == SubSeq(xs, 1, IF Len(xs) < k THEN Len(xs) ELSE k)

\* generateRoleSpecificRecommendations: threw when a callback of some reads
\* an entry that is not a string (management, analysis) or a section without
\* a string name (marketing).
generateRoleSpecificRecommendations(role, a) ==
    LET category   == ToLowerCase(role.category)
        missing    == a.keyFindings.missingSkills
        leadership == SomeMissingIncludes(missing, "leadership")
        sql        == SomeMissingIncludes(missing, "sql")
        project    == FindSection(a.sections, "project")
        recommendations ==
            CASE category = "technology" ->
                    (IF ScoreBelow(a.overallScore, TechnologyThreshold)
                     THEN <<RecTechnologyProjects(role)>> ELSE <<>>)
                        \o <<RecTechnologySkills>>
              [] category = "management" ->
                    (IF leadership = "true" THEN <<RecManagementLeadership>>
                     ELSE <<>>) \o <<RecManagementImpact>>
              [] category = "design" ->
                    <<RecDesignPortfolio>>
                        \o (IF ScoreBelow(a.overallScore, DesignThreshold)
                            THEN <<RecDesignProcess>> ELSE <<>>)
              [] category = "marketing" ->
                    <<RecMarketingMetrics>>
                        \o (IF project = 0 THEN <<RecMarketingProjects>>
                            ELSE <<>>)
              [] category = "sales" -> <<RecSalesNumbers, RecSalesRelationships>>
              [] category = "analysis" ->
                    <<RecAnalysisMethods>>
                        \o (IF sql = "true" THEN <<RecAnalysisSql>> ELSE <<>>)
              [] OTHER -> <<>>
    IN  IF category = "management" /\ leadership = "throw"
        THEN [threw |-> TRUE,
              error |-> NotAString(FirstNonStringFrom(missing, 1), "skill")]
        ELSE IF category = "analysis" /\ sql = "throw"
        THEN [threw |-> TRUE,
              error |-> NotAString(FirstNonStringFrom(missing, 1), "skill")]
        ELSE IF category = "marketing" /\ project < 0
        THEN [threw |-> TRUE,
              error |-> SectionNameError(a.sections[0 - project])]
        ELSE [threw |-> FALSE,
              recommendations |->
                  Slice0(Dedupe(recommendations), MaxRecommendations)]

RECURSIVE MapStr(_)
MapStr(xs) == IF xs = <<>> THEN <<>> ELSE <<Str(Head(xs))>> \o MapStr(Tail(xs))

\* An enricher that assigns the new entries instead of pushing them.
PushAllReplaces(xs, items) == items

\* An enricher that pushes the new entries twice.
PushAllTwice(xs, items) == xs \o items \o items

\* xs.push(...items) (lines 128 and 133)
PushAll(xs, items) == xs \o items

\* .toLowerCase() of the text join returned
LowerCased(joined) ==
    IF joined.threw THEN joined ELSE Text(ToLowerCase(joined.text))

\* The ?.feedback.join(' ') of line 115 for the section found: threw when
\* feedback is not an array (undefined.join, or no join method; the
\* message is the one of the expression as the source writes it) and when
\* join cannot convert an element.
FeedbackText(section) ==
    LET feedback == Get(section, "feedback")
    IN  IF ~IsArray(feedback)
        THEN Thrown(IF feedback.t \in {"null", "undefined"}
                    THEN "Cannot read properties of " \o feedback.t
                             \o " (reading 'join')"
                    ELSE "analysis.sections.find(...)?.feedback.join is not a function")
        ELSE LowerCased(JoinElements(feedback.a, " "))

\* Reads the analysis as it was before the push of line 129.
BeforePush(a, pushed) == a

\* The analysis generateRoleSpecificRecommendations is given (line 132): the
\* object whose missingSkills line 129 pushed to in place.
AfterPush(a, pushed) == pushed

\* enhanceAnalysisWithJobInsights (lines 105-137)
enhanceAnalysisWithJobInsights(a, jobRoleText) ==
    LET found == FindRole(jobRoleText)
    IN  IF found = 0 THEN [threw |-> FALSE, analysis |-> a]
        ELSE
        LET predefinedRole == PREDEFINED_JOB_ROLES[found]
            commonSkills   == RoleSkillsLower[found]
            skillSection   == FindSection(a.sections, "skill")
            feedback       == IF skillSection > 0
                              THEN FeedbackText(a.sections[skillSection])
                              ELSE Text("")
        IN  IF skillSection < 0
            THEN [threw |-> TRUE,
                  error |-> SectionNameError(a.sections[0 - skillSection])]
            ELSE IF feedback.threw THEN [threw |-> TRUE, error |-> feedback.error]
            ELSE
            LET missingCommonSkills ==
                    MissingCommonSkillsFrom(commonSkills, feedback.text,
                                            a.keyFindings.missingSkills, 1)
            IN  IF missingCommonSkills.threw
                THEN [threw |-> TRUE,
                      error |-> NotAString(
                          FirstNonStringFrom(a.keyFindings.missingSkills, 1),
                          "missing")]
                ELSE
                LET newMissingSkills ==
                        NewMissingSkills(missingCommonSkills.skills,
                                         predefinedRole.commonSkills,
                                         commonSkills,
                                         a.keyFindings.missingSkills)
                    withSkills ==
                        [a EXCEPT !.keyFindings.missingSkills =
                                      PushAll(@, newMissingSkills)]
                    roleSpecific ==
                        generateRoleSpecificRecommendations(
                            predefinedRole, AfterPush(a, withSkills))
                IN  IF roleSpecific.threw
                    THEN [threw |-> TRUE, error |-> roleSpecific.error]
                    ELSE [threw |-> FALSE,
                          analysis |->
                              [withSkills EXCEPT
                                  !.jobAlignment.recommendations =
                                      PushAll(@, MapStr(
                                          roleSpecific.recommendations))]]

----------------------------------------------------------------------------
(* generateQuickScore (src/unnamed/part_002:203-232) *)

LowerLetters == "abcdefghijklmnopqrstuvwxyz"

\* \w of a regular expression: a letter, a digit or the underscore
IsWordChar(c) ==
    \/ Includes(LowerLetters, c)
    \/ c \in DOMAIN LowerMap
    \/ Includes(Digits, c)
    \/ c = "_"

\* resumeContent.split(/\s+/).length: the pieces between the runs of white
\* space, the empty piece before a leading run and after a trailing run
\* included, so one more than the number of runs.
WordCount(s) ==
    1 + Cardinality({i \in 1..Len(s) :
                        /\ IsSpace(CharAt(s, i))
                        /\ (i = 1 \/ ~IsSpace(CharAt(s, i - 1)))})

\* \d{n} at position i
DigitsAt(s, i, n) ==
    /\ i + n - 1 <= Len(s)
    /\ \A k \in 0..(n - 1) : Includes(Digits, CharAt(s, i + k))

\* [-.]? at position i: the position after the separator, if there is one
SkipSeparator(s, i) ==
    IF i <= Len(s) /\ CharAt(s, i) \in {"-", "."} THEN i + 1 ELSE i

\* /\d{3}[-.]?\d{3}[-.]?\d{4}/ matched at position i
PhoneAt(s, i) ==
    /\ DigitsAt(s, i, 3)
    /\ LET j == SkipSeparator(s, i + 3)
       IN  /\ DigitsAt(s, j, 3)
           /\ DigitsAt(s, SkipSeparator(s, j + 3), 4)

\* /\d{3}[-.]?\d{3}[-.]?\d{4}/.test(content)
HasPhone(s) == \E i \in 1..Len(s) : PhoneAt(s, i)

experienceKeywords ==
    <<"experience", "worked", "managed", "led", "developed", "created",
      "achieved">>

\* experienceKeywords.filter(keyword => content.includes(keyword)).length
ExperienceMatches(content) ==
    Cardinality({k \in 1..Len(experienceKeywords) :
                    Includes(content, experienceKeywords[k])})

TechnicalTerms ==
    {"javascript", "python", "java", "sql", "excel", "project management",
     "leadership"}

\* \bword\b matched at position i
WholeWordAt(s, i, word) ==
    /\ i + Len(word) - 1 <= Len(s)
    /\ SubSeq(s, i, i + Len(word) - 1) = word
    /\ (i = 1 \/ ~IsWordChar(CharAt(s, i - 1)))
    /\ (i + Len(word) > Len(s) \/ ~IsWordChar(CharAt(s, i + Len(word))))

\* Counts the terms wherever they occur, inside longer words too.
SkillsCountAnywhere(content) ==
    Cardinality({i \in 1..Len(content) :
                    \E word \in TechnicalTerms :
                        /\ i + Len(word) - 1 <= Len(content)
                        /\ SubSeq(content, i, i + Len(word) - 1) = word})

\* (content.match(/\b(javascript|...|leadership)\b/g) || []).length: the
\* matches do not overlap and no two terms match at one position, so the
\* matches are the positions where a term stands as a whole word.
SkillsCount(content) ==
    Cardinality({i \in 1..Len(content) :
                    \E word \in TechnicalTerms : WholeWordAt(content, i, word)})

Min(a, b) == IF a <= b THEN a ELSE b

\* Awards the points whether the signal is there or not.
AwardAlways(condition, points) == points

Points(condition, points) == IF condition THEN points ELSE 0

generateQuickScore(resumeContent) ==
    LET content   == ToLowerCase(resumeContent)
        wordCount == WordCount(resumeContent)
        score ==
            Points(wordCount > 150, 10)
          + Points(wordCount > 300, 10)
          + Points(wordCount > 500, 10)
          + Points(Includes(content, "@") \/ Includes(content, "email"), 10)
          + Points(HasPhone(content), 10)
          + Min(15, ExperienceMatches(content) * 2)
          + Points(\/ Includes(content, "education")
                   \/ Includes(content, "degree")
                   \/ Includes(content, "university"), 5)
          + Points(\/ Includes(content, "bachelor")
                   \/ Includes(content, "master")
                   \/ Includes(content, "phd"), 5)
          + Points(Includes(content, "skills")
                       \/ Includes(content, "technical"), 5)
          + Min(5, SkillsCount(content))
    IN  Min(100, score)

----------------------------------------------------------------------------
(* cleanExtractedText (src/src/lib/pdf-parser.ts:77-101) *)

UpperLetters == "ABCDEFGHIJKLMNOPQRSTUVWXYZ"

\* The characters \x20-\x7E; the grave accent (\x60), which no string of
\* this module holds, is left out.
Printable ==
    " !\"#$%&'()*+,-./" \o Digits \o ":;<=>?@" \o UpperLetters \o "[\\]^_"
        \o LowerLetters \o "{|}~"

\* A replacement with the g flag scans the text from left to right: i is
\* the position the search is at, out the text produced so far.
Scanning(i, out) == [i |-> i, out |-> out]

\* One character is copied and the search moves on by one.
Copy(s, st) == Scanning(st.i + 1, st.out \o CharAt(s, st.i))

\* .replace(/\r\n/g, '\n')
ReplaceCRLF(s, st) ==
    IF st.i < Len(s) /\ SubSeq(s, st.i, st.i + 1) = "\r\n"
    THEN Scanning(st.i + 2, st.out \o "\n")
    ELSE Copy(s, st)

\* .replace(/\r/g, '\n')
ReplaceCR(s, st) ==
    IF CharAt(s, st.i) = "\r" THEN Scanning(st.i + 1, st.out \o "\n")
    ELSE Copy(s, st)

\* The end of the run of characters of the set chars that starts at i: the
\* first position at or after i that holds another character.
RunEnd(s, i, chars) ==
    IF i > Len(s) \/ CharAt(s, i) \notin chars THEN i
    ELSE CHOOSE e \in (i + 1)..(Len(s) + 1) :
             /\ e = Len(s) + 1 \/ CharAt(s, e) \notin chars
             /\ \A k \in i..(e - 1) : CharAt(s, k) \in chars

\* .replace(/\n{3,}/g, '\n\n') with chars = {"\n"}, atLeast = 3, and
\* .replace(/[ \t]{2,}/g, ' ') with chars = {" ", "\t"}, atLeast = 2
CollapseRuns(s, st, chars, atLeast, replacement) ==
    IF RunEnd(s, st.i, chars) - st.i >= atLeast
    THEN Scanning(RunEnd(s, st.i, chars), st.out \o replacement)
    ELSE Copy(s, st)

\* .replace(/[^\x20-\x7E\n]/g, '')
KeepPrintable(s, st) ==
    IF Includes(Printable, CharAt(s, st.i)) \/ CharAt(s, st.i) = "\n"
    THEN Copy(s, st)
    ELSE Scanning(st.i + 1, st.out)

\* ^ with the m flag: the start of the text or the position after a line
\* feed
LineStart(s, i) == i = 1 \/ CharAt(s, i - 1) = "\n"

\* $ with the m flag: the end of the text or the position of a line feed
LineEnd(s, i) == i = Len(s) + 1 \/ CharAt(s, i) = "\n"

\* Where the longest match of /\s*[\d\s]*\s*$/m that starts at i ends: the
\* last line end inside or right after the run of digits and white space
\* that starts at i; i - 1 when there is no match.
NumberLineEnd(s, i) ==
    LET ends == {e \in i..RunEnd(s, i, {CharAt(Digits, d) : d \in 1..10}
                                          \cup {" ", "\t", "\n", "\r", "\f"}) :
                    LineEnd(s, e)}
    IN  IF ends = {} THEN i - 1
        ELSE CHOOSE e \in ends : \A f \in ends : f <= e

\* .replace(/^\s*[\d\s]*\s*$/gm, ''): an empty match changes nothing, a
\* match that holds characters is removed and the search goes on after it.
RemoveNumberLines(s, st) ==
    IF LineStart(s, st.i) /\ NumberLineEnd(s, st.i) > st.i
    THEN Scanning(NumberLineEnd(s, st.i), st.out)
    ELSE Copy(s, st)

\* The two character classes of the three replacements that insert a space
PairMatches(kind, a, b) ==
    CASE kind = "camelCase" ->
             Includes(LowerLetters, a) /\ Includes(UpperLetters, b)
      [] kind = "wordDigit" -> IsWordChar(a) /\ Includes(Digits, b)
      [] kind = "digitWord" -> Includes(Digits, a) /\ IsWordChar(b)

\* .replace(/([a-z])([A-Z])/g, '$1 $2'), .replace(/(\w)(\d)/g, '$1 $2') and
\* .replace(/(\d)(\w)/g, '$1 $2'): the matches do not overlap.
InsertSpaces(s, st, kind) ==
    IF st.i < Len(s) /\ PairMatches(kind, CharAt(s, st.i), CharAt(s, st.i + 1))
    THEN Scanning(st.i + 2,
                  st.out \o CharAt(s, st.i) \o " " \o CharAt(s, st.i + 1))
    ELSE Copy(s, st)

\* Where the match of /\n\s*\n/ that starts at the line feed at i ends: the
\* position after the last line feed of the white space that follows; i
\* when no line feed follows.
ParagraphBreakEnd(s, i) ==
    LET feeds == {e \in (i + 1)..(RunEnd(s, i + 1,
                                         {" ", "\t", "\n", "\r", "\f"}) - 1) :
                     CharAt(s, e) = "\n"}
    IN  IF feeds = {} THEN i
        ELSE 1 + CHOOSE e \in feeds : \A f \in feeds : f <= e

\* .replace(/\n\s*\n/g, '\n\n')
NormalizeBreaks(s, st) ==
    IF CharAt(s, st.i) = "\n" /\ ParagraphBreakEnd(s, st.i) > st.i
    THEN Scanning(ParagraphBreakEnd(s, st.i), st.out \o "\n\n")
    ELSE Copy(s, st)

\* One step of the scan of a replacement; nothing once the text is
\* exhausted.
ScanStep(replacement, s, st) ==
    IF st.i > Len(s) THEN st
    ELSE CASE replacement = "crlf" -> ReplaceCRLF(s, st)
           [] replacement = "cr" -> ReplaceCR(s, st)
           [] replacement = "line feeds" ->
                  CollapseRuns(s, st, {"\n"}, 3, "\n\n")
           [] replacement = "blanks" ->
                  CollapseRuns(s, st, {" ", "\t"}, 2, " ")
           [] replacement = "printable" -> KeepPrintable(s, st)
           [] replacement = "number lines" -> RemoveNumberLines(s, st)
           [] replacement = "paragraphs" -> NormalizeBreaks(s, st)
           [] OTHER -> InsertSpaces(s, st, replacement)

\* k steps of the scan: the first half of them, and the rest unless the
\* text is exhausted by then
RECURSIVE Scan(_, _, _, _)
Scan(replacement, s, st, k) ==
    IF k = 0 THEN st
    ELSE IF k = 1 THEN ScanStep(replacement, s, st)
    ELSE LET half == Scan(replacement, s, st, k \div 2)
         IN  IF half.i > Len(s) THEN half
             ELSE Scan(replacement, s, half, k - (k \div 2))

\* text.replace(...): the scan to the end of the text, which Len(s) steps
\* reach
Replace(s, replacement) == Scan(replacement, s, Scanning(1, ""), Len(s)).out

\* The chain of replacements of lines 82-100 on a text
CleanText(s) ==
    LET s1 == Replace(s, "crlf")
        s2 == Replace(s1, "cr")
        s3 == Replace(s2, "line feeds")
        s4 == Replace(s3, "blanks")
        s5 == Replace(s4, "printable")
        s6 == Replace(s5, "number lines")
        s7 == Replace(s6, "camelCase")
        s8 == Replace(s7, "wordDigit")
        s9 == Replace(s8, "digitWord")
    IN  Trim(Replace(s9, "paragraphs"))

cleanExtractedText(text) ==
    IF ~Truthy(text) \/ text.t # "string" THEN "" ELSE CleanText(text.s)

----------------------------------------------------------------------------
(* validatePDFFile and parsePDFBuffer (src/src/lib/pdf-parser.ts) *)

\* A Buffer: its length and its first bytes (at most HeaderBytes of them,
\* all that validatePDFFile reads of the content), each in 0..255.
Buffer(length, head) == [t |-> "buffer", length |-> length, head |-> head]

\* Bytes in a megabyte (line 116)
BytesPerMB == 1024 * 1024

\* End of the slice buffer.toString('ascii', 0, 8) decodes (line 125)
HeaderBytes == 8

\* '%PDF-' as character codes (line 126)
PdfMagic == <<37, 80, 68, 70, 45>>

\* buffer.toString('ascii', 0, end), as the codes of its characters: the
\* 'ascii' decoder clears the highest bit of each byte.
RECURSIVE ToAsciiString(_, _)
ToAsciiString(bytes, end) ==
    IF bytes = <<>> \/ end = 0 THEN <<>>
    ELSE <<Head(bytes) % 128>> \o ToAsciiString(Tail(bytes), end - 1)

\* header.startsWith(prefix)
StartsWith(codes, prefix) ==
    Len(prefix) <= Len(codes) /\ SubSeq(codes, 1, Len(prefix)) = prefix

\* Two decimal digits
TwoDigits(k) == CharAt(Digits, (k \div 10) + 1) \o CharAt(Digits, (k % 10) + 1)

\* (length / (1024 * 1024)).toFixed(2): the nearest hundredth, the larger
\* one of two equally near.
FileSizeText(length) ==
    LET hundredths == (length * 25 + 131072) \div 262144
    IN  NatToString(hundredths \div 100) \o "." \o TwoDigits(hundredths % 100)

TooLargeError(length, maxSizeMB) ==
    "File size (" \o FileSizeText(length)
        \o "MB) exceeds maximum allowed size of " \o NatToString(maxSizeMB)
        \o "MB"

NoFileContent == "No file content received"
NotPdfFormat == "File is not a valid PDF format"

\* Rejects a buffer of the ceiling's length as well.
ExceedsOrReaches(length, maxSizeMB) == length >= maxSizeMB * BytesPerMB

\* fileSizeMB > maxSizeMB (line 117): the division by 2^20 is exact.
Exceeds(length, maxSizeMB) == length > maxSizeMB * BytesPerMB

Valid == [valid |-> TRUE]
Invalid(message) == [valid |-> FALSE, error |-> message]

validatePDFFile(buffer, maxSizeMB) ==
    IF ~Truthy(buffer) \/ buffer.length = 0 THEN Invalid(NoFileContent)
    ELSE IF Exceeds(buffer.length, maxSizeMB)
    THEN Invalid(TooLargeError(buffer.length, maxSizeMB))
    ELSE IF ~StartsWith(ToAsciiString(buffer.head, HeaderBytes), PdfMagic)
    THEN Invalid(NotPdfFormat)
    ELSE Valid

ParseFailed(message) == [success |-> FALSE, error |-> message]

\* The message parsePDFBuffer reports for what was thrown (lines 49-68)
ParseErrorMessage(isError, message) ==
    IF isError /\ Includes(message, "Invalid PDF")
    THEN "Invalid PDF file format. Please ensure the file is a valid PDF."
    ELSE IF isError /\ Includes(message, "password")
    THEN "Password-protected PDFs are not supported. "
             \o "Please upload an unprotected PDF."
    ELSE IF isError /\ Includes(message, "corrupted")
    THEN "PDF file appears to be corrupted. "
             \o "Please try uploading a different file."
    ELSE "Failed to parse PDF file"

NoTextFound ==
    "No text content found in PDF. "
        \o "This might be a scanned document or image-based PDF."

\* parsePDFBuffer from its import of pdf-parse to its await of pdfParse
\* (lines 17-30): the import failed and the catch answers, the buffer is
\* empty, or pdfParse(buffer) is called.
PdfParseImported(buffer, imported) ==
    IF imported.kind = "import fails"
    THEN [step |-> "return",
          result |-> ParseFailed(ParseErrorMessage(TRUE, imported.message))]
    ELSE IF ~Truthy(buffer) \/ buffer.length = 0
    THEN [step |-> "return",
          result |-> ParseFailed("Empty or invalid PDF buffer provided")]
    ELSE [step |-> "pdfParse"]

\* parsePDFBuffer after its await of pdfParse (lines 30-69): pdfParse threw
\* or returned data.
PdfParsed(outcome) ==
    IF outcome.kind = "throws"
    THEN ParseFailed(ParseErrorMessage(outcome.isError, outcome.message))
    ELSE IF ~Truthy(outcome.text) THEN ParseFailed(NoTextFound)
    ELSE IF outcome.text.t # "string"
    THEN ParseFailed(ParseErrorMessage(TRUE,
                                       "data.text.trim is not a function"))
    ELSE IF Len(Trim(outcome.text.s)) = 0 THEN ParseFailed(NoTextFound)
    ELSE [success |-> TRUE, text |-> Str(Trim(outcome.text.s)),
          pages |-> outcome.numpages]

----------------------------------------------------------------------------
(* Inputs *)

MinResumeLength == 100
PlaceholderKey == "your-openai-api-key-here"

\* How far outside its range a raw score is drawn.
ScoreMargin == 2

\* String.prototype.repeat, by halving
RECURSIVE Rep(_, _)
Rep(c, k) ==
    IF k <= 0 THEN ""
    ELSE LET half == Rep(c, k \div 2)
         IN  half \o half \o (IF k % 2 = 1 THEN c ELSE "")

ApiKeys == {Undefined, Str(""), Str(PlaceholderKey), Str("sk-test")}

ResumeContents ==
    {Undefined, Str(""),
     Str(Rep("x", MinResumeLength - 1)),
     Str(Rep("x", MinResumeLength)),
     Str("  " \o Rep("x", MinResumeLength - 1) \o " \n"),
     Str(Rep(VerticalTab, 5) \o Rep("x", MinResumeLength - 1)),
     Num(5)}

JobRoleTitles ==
    {"", "   ", "Data Scientist", "data scientist", "DATA SCIENTIST",
     "data-scientist", "Data  Scientist", "Data\tScientist", " Data Scientist",
     "Product Manager", "Software Engineer", "UX Designer", "Marketing Manager",
     "Business Analyst", "Sales Representative", "project manager",
     "Astronaut", VerticalTab, "data" \o VerticalTab \o "scientist"}

JobRoles == {Undefined, EmptyObj} \cup {Str(title) : title \in JobRoleTitles}

\* Objects of parsed JSON with a toString property of their own
NoToString == [t |-> "object", toString |-> Null]
NoToStringNoValueOf ==
    [t |-> "object", toString |-> Num(1), valueOf |-> Num(2)]

\* An object of parsed JSON that inherits toString
NoValueOf == [t |-> "object", valueOf |-> Null]

\* Raw values of a score field whose range is 0..hi.
ScoreInputs(hi) ==
    {Undefined, Null, Str(""), Str("85"), Str(" 7 "), Str("-3"), Str("high"),
     Bool(TRUE), Bool(FALSE), EmptyObj, Arr(<<>>), Arr(<<Num(7)>>),
     Arr(<<Str("high")>>), Arr(<<Num(1), Num(2)>>), Str("1e2"), Str("0x10"),
     Str("1.5"), Str("Infinity"), Arr(<<Arr(<<Num(5)>>)>>), NoToString,
     NoToStringNoValueOf, NoValueOf, Arr(<<NoToString>>)}
        \cup {Num(k) : k \in (0 - ScoreMargin)..(hi + ScoreMargin)}

\* A section entry of the raw payload
Section(name, score, feedback) ==
    [t |-> "object", name |-> name, score |-> score, maxScore |-> Num(10),
     feedback |-> feedback, suggestions |-> Arr(<<>>), strengths |-> Arr(<<>>),
     issues |-> Arr(<<>>)]

SecSkills ==
    Section(Str("Skills"), Num(8),
            Arr(<<Str("Strong Python and SQL"), Str("Add Agile/Scrum")>>))
SecTechnicalSkills ==
    Section(Str("Technical SKILLS"), Num(15),
            Arr(<<Str("Machine Learning with TensorFlow"), Null, Num(3)>>))
SecProjects == Section(Str("Projects"), Num(-3), Arr(<<Str("Good scope")>>))
SecExperience ==
    Section(Str("Work Experience"), Num(7),
            Arr(<<Str("Led a team; Python daily")>>))
SecNoName == Section(Undefined, Num(5), Arr(<<>>))
SecSkillsNoFeedback == Section(Str("Skills"), Str("9"), Undefined)
SecSkillsTextFeedback == Section(Str("Skills"), Num(6), Str("Python"))
SecSkillsNestedFeedback ==
    Section(Str("Skills"), Num(6), Arr(<<Arr(<<Str("Python"), Str("SQL")>>)>>))

SecSkillsObjectFeedback ==
    Section(Str("Skills"), Num(6), Arr(<<Str("Python"), NoToString>>))
SecSkillsPlainObjectFeedback ==
    Section(Str("Skills"), Num(6), Arr(<<Str("SQL"), EmptyObj, NoValueOf>>))

SectionLists ==
    {<<>>, <<SecSkills>>, <<SecExperience, SecTechnicalSkills, SecSkills>>,
     <<SecProjects>>, <<SecExperience>>, <<SecProjects, SecSkills>>,
     <<SecExperience, SecNoName>>, <<SecSkillsNoFeedback>>, <<Null>>,
     <<SecSkillsTextFeedback>>, <<SecSkillsNestedFeedback>>,
     <<SecSkillsObjectFeedback>>, <<SecSkillsPlainObjectFeedback>>}

MissingSkillLists ==
    {<<>>, <<Str("Docker")>>, <<Str("SQL databases"), Str("Kubernetes")>>,
     <<Str("Team leadership skills")>>, <<Str("Python"), Str("Git")>>,
     <<Str("Statistics"), Num(5)>>, <<Null>>}

RecommendationLists ==
    {<<>>, <<Str("Tailor the summary to the role")>>,
     <<Str(RecSalesNumbers), Str(RecTechnologySkills)>>}

KeyFindings(strengths, majorIssues, missingSkills, ats, improvementPriority) ==
    [t |-> "object", strengths |-> strengths, majorIssues |-> majorIssues,
     missingSkills |-> missingSkills, atsCompatibility |-> ats,
     improvementPriority |-> improvementPriority]

JobAlignment(matchScore, relevantExperience, skillGaps, recommendations) ==
    [t |-> "object", matchScore |-> matchScore,
     relevantExperience |-> relevantExperience, skillGaps |-> skillGaps,
     recommendations |-> recommendations]

Payload(overallScore, summary, sections, keyFindings, jobAlignment, extra) ==
    [t |-> "object", overallScore |-> overallScore, summary |-> summary,
     sections |-> sections, keyFindings |-> keyFindings,
     jobAlignment |-> jobAlignment, extra |-> extra]

\* A well-formed payload, varied one part at a time below.
GoodKeyFindings ==
    KeyFindings(Arr(<<Str("Clear layout")>>), Arr(<<>>), Arr(<<>>), Num(8),
                Arr(<<Str("Quantify results")>>))
GoodJobAlignment ==
    JobAlignment(Num(6), Arr(<<Str("Data pipelines")>>), Arr(<<>>), Arr(<<>>))

\* Payloads that vary the scores.
ScorePayloads ==
    {Payload(x, Str("Solid resume."), Arr(<<SecExperience>>), GoodKeyFindings,
             GoodJobAlignment, Undefined) : x \in ScoreInputs(MaxOverallScore)}
    \cup
    {Payload(Num(50), Undefined, Arr(<<>>),
             KeyFindings(Arr(<<>>), Arr(<<>>), Arr(<<>>), x, Arr(<<>>)),
             JobAlignment(Num(11), Arr(<<>>), Arr(<<>>), Arr(<<>>)),
             Str("extra")) :
        x \in ScoreInputs(MaxTenScore)}
    \cup
    {Payload(Num(50), Str(""), Arr(<<>>), GoodKeyFindings,
             JobAlignment(y, Arr(<<>>), Arr(<<>>), Arr(<<>>)), Undefined) :
        y \in ScoreInputs(MaxTenScore)}

\* Payloads that vary the type of each list field on its own: the fields in
\* arrays hold an array, every other list field holds other.  Every set of
\* fields is drawn with undefined for the others, and every set of seven or
\* no fields with each value that is not an array.
ListFieldNames ==
    {"sections", "strengths", "majorIssues", "missingSkills",
     "improvementPriority", "relevantExperience", "skillGaps", "recommendations"}

NonArrays == {Undefined, Null, Str("none"), Num(3), EmptyObj}

ListValue(field, arrays, other) ==
    IF field \in arrays
    THEN (IF field = "sections" THEN Arr(<<SecProjects>>) ELSE Arr(<<Str(field)>>))
    ELSE other

ListPayload(arrays, other) ==
    Payload(Num(81), Str("Lists vary."), ListValue("sections", arrays, other),
            KeyFindings(ListValue("strengths", arrays, other),
                        ListValue("majorIssues", arrays, other),
                        ListValue("missingSkills", arrays, other), Num(4),
                        ListValue("improvementPriority", arrays, other)),
            JobAlignment(Num(4), ListValue("relevantExperience", arrays, other),
                         ListValue("skillGaps", arrays, other),
                         ListValue("recommendations", arrays, other)),
            Undefined)

ListPayloads ==
    {ListPayload(arrays, Undefined) : arrays \in SUBSET ListFieldNames}
    \cup
    {ListPayload(arrays, other) :
        arrays \in {fields \in SUBSET ListFieldNames :
                       Cardinality(fields) \in
                           {0, Cardinality(ListFieldNames) - 1}},
        other \in NonArrays}

\* Payloads that vary what the enricher reads.
EnrichPayloads ==
    {Payload(Num(score), Str("Enrichment varies."), Arr(sections),
             KeyFindings(Arr(<<>>), Arr(<<>>), Arr(missing), Num(7), Arr(<<>>)),
             JobAlignment(Num(5), Arr(<<>>), Arr(<<>>), Arr(recs)), Undefined) :
        score \in {TechnologyThreshold + 2},
        sections \in SectionLists, missing \in MissingSkillLists,
        recs \in RecommendationLists}

\* Payloads that are not an object with the expected fields.
OddPayloads ==
    {Null, Str("ok"), Num(5), Bool(TRUE), Arr(<<>>), Arr(<<Num(1)>>),
     Payload(Undefined, Undefined, Undefined, Undefined, Undefined, Undefined),
     Payload(Num(40), Num(7), Str("none"), Str("none"), Num(3), Null),
     Payload(Num(40), EmptyObj, EmptyObj, Null, Arr(<<>>), Undefined),
     Payload(Str("40"), Str("Fine."), Arr(<<EmptyObj>>), EmptyObj, EmptyObj,
             Num(1)),
     EmptyObj}

RawPayloads ==
    ScorePayloads \cup ListPayloads \cup EnrichPayloads \cup OddPayloads

\* What openai.chat.completions.create and JSON.parse give callOpenAI.
UpstreamErrors ==
    {"Connection error.", "429 Rate limit reached for requests",
     "Request timed out."}

----------------------------------------------------------------------------
(* analyzeResume and callOpenAI *)

NotNormalized == [called |-> FALSE]
NoAnalysis == [returned |-> FALSE]

\* The analysis endpoint before a request
NoRequest == [received |-> FALSE]

\* A request POST received, with the await or the end POST is at
Received(body, at) == [received |-> TRUE, body |-> body, at |-> at]
NotScored == [computed |-> FALSE]
NoResponse == [sent |-> FALSE]

PostIdle ==
    /\ request = NoRequest
    /\ quickScore = NotScored
    /\ response = NoResponse

\* No pure function is applied
NoInput == [given |-> FALSE]
NoOutput == [done |-> FALSE]

PureIdle == input = NoInput /\ output = NoOutput

\* The page as useState constructs it (page.tsx:15-22)
NoResume == [present |-> FALSE]
NoPageAnalysis == [present |-> FALSE]
UploadStatus(status, progress, message) ==
    [status |-> status, progress |-> progress, message |-> message]
IdleStatus == UploadStatus("idle", 0, "")

PageIdle ==
    /\ currentStep = "upload"
    /\ pageResume = NoResume
    /\ pageAnalysis = NoPageAnalysis
    /\ uploadStatus = IdleStatus
    /\ progressIntervals = {}
    /\ awaits = {}
    /\ timeouts = {}
    /\ started = 0
    /\ fileReads = 0

\* No call of analyzeResume is made
AnalyzerIdle ==
    /\ pc = "idle"
    /\ resumeInput = [content |-> Undefined, type |-> "text"]
    /\ jobRole = Undefined
    /\ openaiCalls = 0
    /\ rawAnalysis = Undefined
    /\ normalized = NotNormalized
    /\ analysis = NoAnalysis
    /\ error = ""

\* Takes every key that is set, the placeholder too.
KeyIsSet(key) == Truthy(key)

\* validateOpenAIKey (openai.ts:85-88)
validateOpenAIKey(key) ==
    Truthy(key) /\ key.t = "string" /\ Len(key.s) > 0 /\ key.s # PlaceholderKey

\* The catch of analyzeResume (lines 44-47)
FailedToAnalyze(message) == "Failed to analyze resume: " \o message

\* The messages of the Errors lines 19 and 23 throw
ResumeTooShort ==
    "Resume content is too short or empty. Please provide a complete resume."
JobRoleRequired == "Job role is required for targeted analysis."

\* The TypeError of x.trim() for a truthy x that is not a string
TrimIsNotAFunction(what) == what \o ".trim is not a function"

\* Precondition checks that measure the text without trimming it.
InputErrorUntrimmed(content, role) ==
    IF ~Truthy(content) THEN ResumeTooShort
    ELSE IF content.t # "string"
    THEN TrimIsNotAFunction("resumeInput.content")
    ELSE IF Len(content.s) < MinResumeLength THEN ResumeTooShort
    ELSE IF ~Truthy(role) THEN JobRoleRequired
    ELSE IF role.t # "string" THEN TrimIsNotAFunction("jobRole")
    ELSE IF Len(role.s) = 0 THEN JobRoleRequired
    ELSE ""

\* The precondition checks of analyzeResume (lines 18-24): the message of
\* the Error thrown, "" when the inputs pass.  A truthy content or role
\* that is not a string has no trim method.
InputError(content, role) ==
    IF ~Truthy(content) THEN ResumeTooShort
    ELSE IF content.t # "string"
    THEN TrimIsNotAFunction("resumeInput.content")
    ELSE IF Len(Trim(content.s)) < MinResumeLength THEN ResumeTooShort
    ELSE IF ~Truthy(role) THEN JobRoleRequired
    ELSE IF role.t # "string" THEN TrimIsNotAFunction("jobRole")
    ELSE IF Len(Trim(role.s)) = 0 THEN JobRoleRequired
    ELSE ""

Init ==
    /\ apiKey \in ApiKeys
    /\ AnalyzerIdle
    /\ PostIdle
    /\ PageIdle
    /\ PureIdle

\* analyzeResume up to its await (lines 16-34), with callOpenAI up to its
\* own await (openai.ts:92-97): the inputs are checked, then the key, then
\* the request is sent.
AnalyzeResumeCalled(resume, role) ==
    /\ pc = "idle"
    /\ resumeInput' = resume
    /\ jobRole' = role
    /\ IF InputError(resume.content, role) # ""
       THEN /\ pc' = "thrown"
            /\ error' = FailedToAnalyze(InputError(resume.content, role))
            /\ UNCHANGED openaiCalls
       ELSE IF ~validateOpenAIKey(apiKey)
       THEN /\ pc' = "thrown"
            /\ error' = FailedToAnalyze(
                   "OpenAI API key is not configured. Please set OPENAI_API_KEY environment variable.")
            /\ UNCHANGED openaiCalls
       ELSE /\ pc' = "awaitOpenAI"
            /\ openaiCalls' = openaiCalls + 1
            /\ UNCHANGED error
    /\ UNCHANGED <<apiKey, rawAnalysis, normalized, analysis>>

\* analyzeResume called on its own
AnalyzeResume(content, role) ==
    /\ AnalyzeResumeCalled([content |-> content, type |-> "text"], role)
    /\ UNCHANGED <<postVars, pureVars, pageVars>>

\* The request to the external service fails and is sent again.
CallOpenAIRetries(message) ==
    /\ pc = "awaitOpenAI"
    /\ openaiCalls' = openaiCalls + 1
    /\ UNCHANGED <<apiKey, pc, resumeInput, jobRole, rawAnalysis, normalized,
                   analysis, error, postVars, pureVars, pageVars>>

\* The request fails, or the completion holds no content, or its content
\* is not JSON: callOpenAI rethrows (openai.ts:109-117) and analyzeResume
\* wraps the message (lines 44-47).
CallOpenAIThrows(message) ==
    /\ pc = "awaitOpenAI"
    /\ pc' = "thrown"
    /\ error' = FailedToAnalyze(message)
    /\ UNCHANGED <<apiKey, resumeInput, jobRole, openaiCalls, rawAnalysis,
                   normalized, analysis, postVars, pureVars, pageVars>>

\* callOpenAI returns the parsed payload (openai.ts:113) and analyzeResume
\* runs to its end (lines 34-47).
CallOpenAIReturns(raw) ==
    /\ pc = "awaitOpenAI"
    /\ rawAnalysis' = raw
    /\ LET structured == validateAndStructureAnalysis(raw)
       IN  /\ normalized' = [called |-> TRUE, result |-> structured]
           /\ IF structured.threw
              THEN /\ pc' = "thrown"
                   /\ error' = FailedToAnalyze(structured.error)
                   /\ UNCHANGED analysis
              ELSE LET enhanced ==
                           enhanceAnalysisWithJobInsights(structured.value,
                                                          jobRole.s)
                   IN  IF enhanced.threw
                       THEN /\ pc' = "thrown"
                            /\ error' = FailedToAnalyze(enhanced.error)
                            /\ UNCHANGED analysis
                       ELSE /\ pc' = "returned"
                            /\ analysis' = [returned |-> TRUE,
                                            value |-> enhanced.analysis]
                            /\ UNCHANGED error
    /\ UNCHANGED <<apiKey, resumeInput, jobRole, openaiCalls, postVars,
                   pureVars, pageVars>>

Next ==
    \/ \E content \in ResumeContents, role \in JobRoles :
           AnalyzeResume(content, role)
    \/ \E message \in UpstreamErrors \cup
                      {"No response received from OpenAI API",
                       "Unexpected token < in JSON at position 0"} :
           CallOpenAIThrows(message)
    \/ \E raw \in RawPayloads : CallOpenAIReturns(raw)

Spec == Init /\ [][Next]_vars

----------------------------------------------------------------------------
(* Properties of the Response Normalizer *)

Normalized == normalized.called /\ ~normalized.result.threw

\* A JavaScript number (not NaN) within lo..hi
InRange(v, lo, hi) ==
    v.t = "number" /\ ~NumLess(v, Num(lo)) /\ ~NumLess(Num(hi), v)

\* obj.field of the raw payload, undefined when obj is not an object
RawField(obj, field) ==
    IF obj.t = "object" /\ field \in DOMAIN obj THEN obj[field] ELSE Undefined

\* C1: the Response Normalizer never raises: whenever
\* validateAndStructureAnalysis was applied to a payload (null, an empty
\* object, wrong-typed fields and unknown fields included), it returned an
\* analysis.
C1_NormalizerNeverRaises == normalized.called => ~normalized.result.threw

\* C2: for any raw payload the normalized overallScore is a number in
\* [0,100], atsCompatibility and matchScore are numbers in [0,10], a missing
\* score is 0, and maxOverallScore is 100.
C2_ScoresInRange ==
    Normalized =>
        LET v == normalized.result.value
        IN  /\ InRange(v.overallScore, 0, 100)
            /\ InRange(v.keyFindings.atsCompatibility, 0, 10)
            /\ InRange(v.jobAlignment.matchScore, 0, 10)
            /\ v.maxOverallScore = 100
            /\ RawField(rawAnalysis, "overallScore").t = "undefined"
                   => v.overallScore = Num(0)
            /\ RawField(RawField(rawAnalysis, "keyFindings"),
                        "atsCompatibility").t = "undefined"
                   => v.keyFindings.atsCompatibility = Num(0)
            /\ RawField(RawField(rawAnalysis, "jobAlignment"),
                        "matchScore").t = "undefined"
                   => v.jobAlignment.matchScore = Num(0)

\* C3: every section of the analysis analyzeResume returns has a score
\* that is a number in [0,10].
C3_SectionScoresInRange ==
    pc = "returned" =>
        \A k \in 1..Len(analysis.value.sections) :
            InRange(RawField(analysis.value.sections[k], "score"), 0, 10)

\* The list a list field of the normalized analysis holds for the raw
\* value x: x's elements when x is an array, no element otherwise.
KeptOrEmpty(x) == IF x.t = "array" THEN x.a ELSE <<>>

\* C4: sections and every list field of keyFindings and jobAlignment of
\* the normalized analysis is the raw field's own sequence when the raw
\* value is a sequence, and the empty sequence when it is absent or of any
\* other type, each field on its own.
C4_ListFieldsKeptOrEmpty ==
    Normalized =>
        LET v  == normalized.result.value
            kf == RawField(rawAnalysis, "keyFindings")
            ja == RawField(rawAnalysis, "jobAlignment")
        IN  /\ v.sections = KeptOrEmpty(RawField(rawAnalysis, "sections"))
            /\ v.keyFindings.strengths = KeptOrEmpty(RawField(kf, "strengths"))
            /\ v.keyFindings.majorIssues
                   = KeptOrEmpty(RawField(kf, "majorIssues"))
            /\ v.keyFindings.missingSkills
                   = KeptOrEmpty(RawField(kf, "missingSkills"))
            /\ v.keyFindings.improvementPriority
                   = KeptOrEmpty(RawField(kf, "improvementPriority"))
            /\ v.jobAlignment.relevantExperience
                   = KeptOrEmpty(RawField(ja, "relevantExperience"))
            /\ v.jobAlignment.skillGaps = KeptOrEmpty(RawField(ja, "skillGaps"))
            /\ v.jobAlignment.recommendations
                   = KeptOrEmpty(RawField(ja, "recommendations"))

\* C4's case: one raw payload with list fields that are arrays, kept, and
\* a list field that is a string, replaced by the empty sequence.
C4_Witness ==
    /\ Normalized
    /\ RawField(rawAnalysis, "sections").t = "array"
    /\ Len(normalized.result.value.sections) > 0
    /\ RawField(RawField(rawAnalysis, "keyFindings"), "strengths").t = "string"
    /\ normalized.result.value.keyFindings.strengths = <<>>
    /\ RawField(RawField(rawAnalysis, "jobAlignment"),
                "recommendations").t = "array"
    /\ Len(normalized.result.value.jobAlignment.recommendations) > 0

----------------------------------------------------------------------------
(* Properties of the Role-Insight Enricher *)

IsPrefix(xs, ys) == Len(xs) <= Len(ys) /\ SubSeq(ys, 1, Len(xs)) = xs

\* What enhanceAnalysisWithJobInsights was given and what it returned.
Before == normalized.result.value
After == analysis.value

\* The entries the enricher appended to a list
Appended(before, after) == SubSeq(after, Len(before) + 1, Len(after))

\* The catalog entries a job role title matches: by its lower-cased title,
\* or by its id and the lower-cased title with white space runs hyphenated.
TitleMatches(i, lowered, slug) ==
    \/ ToLowerCase(PREDEFINED_JOB_ROLES[i].title) = lowered
    \/ PREDEFINED_JOB_ROLES[i].id = slug

MatchingRoles(title) ==
    LET lowered == ToLowerCase(title)
        slug    == Hyphenate(lowered)
    IN  {i \in 1..Len(PREDEFINED_JOB_ROLES) : TitleMatches(i, lowered, slug)}

\* f is the first matching entry in catalog order, 0 when none matches.
IsFirstMatch(f, matching) ==
    IF matching = {} THEN f = 0
    ELSE f \in matching /\ \A j \in matching : f <= j

\* C5: monotonic enrichment: the enricher leaves overallScore,
\* atsCompatibility, matchScore, summary and sections unchanged, and every
\* list field after enrichment has its content before enrichment as a
\* prefix.
C5_EnrichmentOnlyAppends ==
    pc = "returned" =>
        /\ After.overallScore = Before.overallScore
        /\ After.maxOverallScore = Before.maxOverallScore
        /\ After.keyFindings.atsCompatibility
               = Before.keyFindings.atsCompatibility
        /\ After.jobAlignment.matchScore = Before.jobAlignment.matchScore
        /\ After.summary = Before.summary
        /\ After.sections = Before.sections
        /\ IsPrefix(Before.keyFindings.strengths, After.keyFindings.strengths)
        /\ IsPrefix(Before.keyFindings.majorIssues,
                    After.keyFindings.majorIssues)
        /\ IsPrefix(Before.keyFindings.missingSkills,
                    After.keyFindings.missingSkills)
        /\ IsPrefix(Before.keyFindings.improvementPriority,
                    After.keyFindings.improvementPriority)
        /\ IsPrefix(Before.jobAlignment.relevantExperience,
                    After.jobAlignment.relevantExperience)
        /\ IsPrefix(Before.jobAlignment.skillGaps, After.jobAlignment.skillGaps)
        /\ IsPrefix(Before.jobAlignment.recommendations,
                    After.jobAlignment.recommendations)

\* C5's case: an enrichment that appended to lists that already had entries.
C5_Witness ==
    /\ pc = "returned"
    /\ Len(Before.keyFindings.missingSkills) > 0
    /\ Len(After.keyFindings.missingSkills)
           > Len(Before.keyFindings.missingSkills)
    /\ Len(Before.jobAlignment.recommendations) > 0
    /\ Len(After.jobAlignment.recommendations)
           > Len(Before.jobAlignment.recommendations)
    /\ Len(Before.sections) > 0

\* C6: when the job role title matches no catalog entry, the enricher
\* returns the analysis with every field unchanged.
C6_NoMatchUnchanged ==
    (pc = "returned" /\ MatchingRoles(jobRole.s) = {}) => After = Before

\* C6's case: a job role that holds a catalog title after a space and
\* matches no entry, enriched unchanged.
C6_Witness ==
    /\ pc = "returned"
    /\ jobRole.s = " Data Scientist"
    /\ MatchingRoles(jobRole.s) = {}
    /\ Len(Before.sections) > 0
    /\ After = Before

\* C7: catalog lookup: the entry the enricher uses is the first entry, in
\* catalog order, whose lower-cased title is the lower-cased job role or
\* whose id is the lower-cased job role with each white space run replaced
\* by one hyphen, and none when no entry matches; "data scientist",
\* "DATA SCIENTIST", "data-scientist" and a title with a run of two spaces
\* all select the Data Scientist entry.
C7_CatalogLookup ==
    pc = "returned" =>
        /\ IsFirstMatch(FindRole(jobRole.s), MatchingRoles(jobRole.s))
        /\ jobRole.s \in {"data scientist", "DATA SCIENTIST", "data-scientist",
                          "Data  Scientist", "Data\tScientist"}
               => /\ FindRole(jobRole.s) > 0
                  /\ PREDEFINED_JOB_ROLES[FindRole(jobRole.s)].title
                         = "Data Scientist"
        /\ jobRole.s \in {" Data Scientist", "Astronaut"}
               => FindRole(jobRole.s) = 0

\* C7's case: a job role title written with a run of two spaces selected
\* the Data Scientist entry, whose recommendation was appended.
C7_Witness ==
    /\ pc = "returned"
    /\ jobRole.s = "Data  Scientist"
    /\ FindRole(jobRole.s) = 1
    /\ Len(After.jobAlignment.recommendations) > 0
    /\ After.jobAlignment.recommendations[
           Len(After.jobAlignment.recommendations)] = Str(RecTechnologySkills)

\* The first section whose name, lower-cased, contains word; 0 when there
\* is none.
FirstSectionNamed(sections, word) ==
    LET named == {k \in 1..Len(sections) :
                     /\ RawField(sections[k], "name").t = "string"
                     /\ Includes(ToLowerCase(sections[k].name.s), word)}
    IN  IF named = {} THEN 0
        ELSE CHOOSE k \in named : \A j \in named : k <= j

\* The lower-cased, space-joined feedback of the first section whose name
\* contains "skill"; the empty text when there is no such section.
SkillsFeedbackText(sections) ==
    LET k == FirstSectionNamed(sections, "skill")
    IN  IF k = 0 THEN ""
        ELSE ToLowerCase(JoinElements(sections[k].feedback.a, " ").text)

\* Some entry of the list, lower-cased, contains word.
SomeEntryContains(list, word) ==
    \E k \in 1..Len(list) :
        list[k].t = "string" /\ Includes(ToLowerCase(list[k].s), word)

\* The skills of a catalog entry that are a substring neither of the skills
\* feedback text nor of an entry of the missing skills, in catalog order.
SkillsToAppend(role, sections, missing) ==
    LET text == SkillsFeedbackText(sections)
        IsMissing(skill) ==
            /\ ~Includes(text, ToLowerCase(skill))
            /\ ~SomeEntryContains(missing, ToLowerCase(skill))
    IN  SelectSeq(role.commonSkills, IsMissing)

\* C8: on a catalog match, the skills appended to keyFindings.missingSkills
\* are, in catalog order and catalog casing, exactly the skills of the
\* matched role whose lower-cased form is a substring neither of the
\* lower-cased, space-joined feedback of the first section whose name
\* contains "skill" (in any letter case; the empty text without such a
\* section) nor of a lower-cased entry of missingSkills before enrichment;
\* the entries before enrichment are kept.
C8_MissingSkillsAppended ==
    (pc = "returned" /\ FindRole(jobRole.s) > 0) =>
        /\ IsPrefix(Before.keyFindings.missingSkills,
                    After.keyFindings.missingSkills)
        /\ Appended(Before.keyFindings.missingSkills,
                    After.keyFindings.missingSkills)
               = MapStr(SkillsToAppend(
                     PREDEFINED_JOB_ROLES[FindRole(jobRole.s)],
                     Before.sections, Before.keyFindings.missingSkills))

\* C8's case: Data Scientist, a skills section whose feedback names
\* machine learning and TensorFlow (and holds an "r"), before one that
\* names Python, and a missing skill that contains "sql".
C8_Witness ==
    /\ pc = "returned"
    /\ jobRole.s = "data scientist"
    /\ Before.sections = <<SecExperience, SecTechnicalSkills, SecSkills>>
    /\ Before.keyFindings.missingSkills
           = <<Str("SQL databases"), Str("Kubernetes")>>
    /\ After.keyFindings.missingSkills
           = <<Str("SQL databases"), Str("Kubernetes"), Str("Python"),
               Str("Statistics"), Str("Data Visualization"), Str("Pandas"),
               Str("Numpy")>>

\* The rule table of a category: each recommendation with its condition.
Rule(text, when) == [text |-> text, when |-> when]

RuleTable(role, a) ==
    LET category == ToLowerCase(role.category)
    IN  CASE category = "technology" ->
                {Rule(RecTechnologyProjects(role),
                      a.overallScore.t = "number"
                          /\ NumLess(a.overallScore, Num(70))),
                 Rule(RecTechnologySkills, TRUE)}
          [] category = "management" ->
                {Rule(RecManagementLeadership,
                      SomeEntryContains(a.keyFindings.missingSkills,
                                        "leadership")),
                 Rule(RecManagementImpact, TRUE)}
          [] category = "design" ->
                {Rule(RecDesignPortfolio, TRUE),
                 Rule(RecDesignProcess,
                      a.overallScore.t = "number"
                          /\ NumLess(a.overallScore, Num(75)))}
          [] category = "marketing" ->
                {Rule(RecMarketingMetrics, TRUE),
                 Rule(RecMarketingProjects,
                      FirstSectionNamed(a.sections, "project") = 0)}
          [] category = "sales" ->
                {Rule(RecSalesNumbers, TRUE), Rule(RecSalesRelationships, TRUE)}
          [] category = "analysis" ->
                {Rule(RecAnalysisMethods, TRUE),
                 Rule(RecAnalysisSql,
                      SomeEntryContains(a.keyFindings.missingSkills, "sql"))}
          [] OTHER -> {}

\* C9: on a catalog match, the enricher appends to the end of
\* jobAlignment.recommendations at most 3 strings, pairwise distinct, which
\* are the recommendations of the matched role's category whose condition
\* holds (technology: overallScore < 70; design: overallScore < 75;
\* management: a missing skill containing "leadership"; marketing: no
\* section whose name contains "project"; analysis: a missing skill
\* containing "sql").
C9_RoleRecommendations ==
    (pc = "returned" /\ FindRole(jobRole.s) > 0) =>
        LET recs  == Appended(Before.jobAlignment.recommendations,
                              After.jobAlignment.recommendations)
            rules == RuleTable(PREDEFINED_JOB_ROLES[FindRole(jobRole.s)], After)
        IN  /\ IsPrefix(Before.jobAlignment.recommendations,
                        After.jobAlignment.recommendations)
            /\ Len(recs) <= 3
            /\ \A j, k \in 1..Len(recs) : j # k => recs[j] # recs[k]
            /\ {recs[k] : k \in 1..Len(recs)}
                   = {Str(rule.text) : rule \in {r \in rules : r.when}}

\* C9's case: a technology role with overallScore 69, below the threshold
\* of 70: the conditional recommendation and the unconditional one follow
\* the recommendations the payload held.
C9_Witness ==
    /\ pc = "returned"
    /\ jobRole.s = "Software Engineer"
    /\ Before.overallScore = Num(69)
    /\ After.jobAlignment.recommendations
           = Before.jobAlignment.recommendations
                 \o <<Str("Consider adding more specific technical projects that demonstrate Programming, JavaScript, Python experience"),
                      Str(RecTechnologySkills)>>

----------------------------------------------------------------------------
(* Properties of analyzeResume *)

\* A text, or no value at all
TextOrNone(v) == v.t = "string" \/ ~Truthy(v)

\* C10: whenever the resume text, trimmed, is shorter than 100 characters
\* (or there is none), or the job role is empty after trimming (or there is
\* none), analyzeResume fails with the invalid-input error of that
\* precondition and the external scoring service is not called.  (For a
\* value that is neither a text nor missing the call fails as well, with the
\* TypeError of trim.)
C10_FailFastPreconditions ==
    (/\ pc # "idle"
     /\ \/ resumeInput.content.t # "string"
        \/ Len(Trim(resumeInput.content.s)) < 100
        \/ jobRole.t # "string"
        \/ Trim(jobRole.s) = "") =>
        /\ pc = "thrown"
        /\ openaiCalls = 0
        /\ rawAnalysis = Undefined
        /\ (TextOrNone(resumeInput.content) /\ TextOrNone(jobRole)) =>
               error \in
                   {"Failed to analyze resume: Resume content is too short or empty. Please provide a complete resume.",
                    "Failed to analyze resume: Job role is required for targeted analysis."}

\* C10's case: a text of more than 100 characters that is 99 characters
\* long once trimmed, with a job role and a configured key: thrown, and
\* no request was sent.
C10_Witness ==
    /\ pc = "thrown"
    /\ resumeInput.content.t = "string"
    /\ Len(resumeInput.content.s) > 100
    /\ Len(Trim(resumeInput.content.s)) = 99
    /\ jobRole.s = "Data Scientist"
    /\ validateOpenAIKey(apiKey)
    /\ openaiCalls = 0

\* The entries of keyFindings.missingSkills of the raw payload are strings
\* (or the field is no sequence).
RawMissingSkillsAreStrings ==
    LET missing == KeptOrEmpty(RawField(RawField(rawAnalysis, "keyFindings"),
                                        "missingSkills"))
    IN  \A k \in 1..Len(missing) : missing[k].t = "string"

\* C27: for a raw payload whose sections value is a sequence, whatever its
\* entries (the normalizer not having raised, and the missing skills being
\* strings), analyzeResume with a job role that matches a catalog entry
\* returns an analysis: the enricher does not raise.
C27_UntypedShapeDoesNotLeak ==
    (/\ Normalized
     /\ IsArray(RawField(rawAnalysis, "sections"))
     /\ RawMissingSkillsAreStrings
     /\ MatchingRoles(jobRole.s) # {}) =>
        /\ pc = "returned"
        /\ analysis.returned

\* x is an entry of the sequence.
InSeq(x, xs) == \E k \in 1..Len(xs) : xs[k] = x

\* The catalog entry the job role matches has this id.
MatchedRoleIs(id) ==
    \E f \in 1..Len(PREDEFINED_JOB_ROLES) :
        /\ IsFirstMatch(f, MatchingRoles(jobRole.s))
        /\ PREDEFINED_JOB_ROLES[f].id = id

\* C28: the role-specific recommendations are computed after the catalog
\* skills were appended to missingSkills: for Project Manager, when this
\* enrichment appended "Team Leadership" the leadership recommendation is
\* among the recommendations it appended, and for Business Analyst, when it
\* appended "SQL" the recommendation of SQL tools is, also when
\* missingSkills was empty before.
C28_RecommendationsSeeAppendedSkills ==
    pc = "returned" =>
        /\ (/\ MatchedRoleIs("project-manager")
            /\ InSeq(Str("Team Leadership"),
                     Appended(Before.keyFindings.missingSkills,
                              After.keyFindings.missingSkills)))
             => InSeq(Str(RecManagementLeadership),
                      Appended(Before.jobAlignment.recommendations,
                               After.jobAlignment.recommendations))
        /\ (/\ MatchedRoleIs("business-analyst")
            /\ InSeq(Str("SQL"),
                     Appended(Before.keyFindings.missingSkills,
                              After.keyFindings.missingSkills)))
             => InSeq(Str(RecAnalysisSql),
                      Appended(Before.jobAlignment.recommendations,
                               After.jobAlignment.recommendations))

\* C28's case: Project Manager with no missing skill before enrichment;
\* "Team Leadership" and the leadership recommendation were appended.
C28_Witness ==
    /\ pc = "returned"
    /\ jobRole.s = "project manager"
    /\ Before.keyFindings.missingSkills = <<>>
    /\ InSeq(Str("Team Leadership"), After.keyFindings.missingSkills)
    /\ InSeq(Str(RecManagementLeadership), After.jobAlignment.recommendations)
    /\ ~InSeq(Str(RecManagementLeadership),
              Before.jobAlignment.recommendations)

\* The same for Business Analyst and "SQL"
C28_WitnessSql ==
    /\ pc = "returned"
    /\ jobRole.s = "Business Analyst"
    /\ Before.keyFindings.missingSkills = <<>>
    /\ InSeq(Str("SQL"), After.keyFindings.missingSkills)
    /\ InSeq(Str(RecAnalysisSql), After.jobAlignment.recommendations)

----------------------------------------------------------------------------
(* generateQuickScore applied to texts built from the signals of its       *)
(* rubric                                                                   *)

\* String.prototype.toUpperCase (ASCII)
UpperChar(c) ==
    IF Includes(LowerLetters, c)
    THEN CharAt(UpperLetters,
                CHOOSE k \in 1..Len(LowerLetters) : CharAt(LowerLetters, k) = c)
    ELSE c

RECURSIVE ToUpperCase(_)
ToUpperCase(s) ==
    IF Len(s) = 0 THEN ""
    ELSE IF Len(s) = 1 THEN UpperChar(s)
    ELSE ToUpperCase(SubSeq(s, 1, Len(s) \div 2))
             \o ToUpperCase(SubSeq(s, (Len(s) \div 2) + 1, Len(s)))

\* A piece of text with the signal it is written to give: hit for a signal
\* that is there or not, count for one that is counted.
Piece(text, hit, count) == [text |-> text, hit |-> hit, count |-> count]

NoPiece == Piece("", FALSE, 0)

EmailPieces ==
    {NoPiece, Piece("jane.doe@example.com", TRUE, 1),
     Piece("Email: jane at example", TRUE, 1),
     Piece("E-Mail: jane at example", FALSE, 0)}

PhonePieces ==
    {NoPiece, Piece("555-123-4567", TRUE, 1), Piece("555.123.4567", TRUE, 1),
     Piece("Tel 5551234567", TRUE, 1), Piece("555-12-4567", FALSE, 0),
     Piece("55-123-4567", FALSE, 0), Piece("555--123-4567", FALSE, 0)}

\* The experience keywords written in the text, by their position in
\* experienceKeywords
ExperienceSets == {{}, {4}, {1, 2, 3, 5}, {2, 4, 6, 7}, 1..7}

\* The keywords of a set, in capitals for the even positions
RECURSIVE ExperienceText(_, _)
ExperienceText(keywords, k) ==
    IF k > Len(experienceKeywords) THEN ""
    ELSE (IF k \in keywords
          THEN (IF k % 2 = 0 THEN ToUpperCase(experienceKeywords[k])
                ELSE experienceKeywords[k]) \o " "
          ELSE "")
             \o ExperienceText(keywords, k + 1)

ExperiencePieces ==
    {Piece(TrimEnd(ExperienceText(keywords, 1)), keywords # {},
           Cardinality(keywords)) : keywords \in ExperienceSets}

EducationPieces ==
    {NoPiece, Piece("Education", TRUE, 1), Piece("a degree in law", TRUE, 1),
     Piece("State UNIVERSITY", TRUE, 1)}

DegreePieces ==
    {NoPiece, Piece("Bachelor of Science", TRUE, 1), Piece("MASTER", TRUE, 1),
     Piece("PhD", TRUE, 1)}

SkillsPieces ==
    {NoPiece, Piece("Skills:", TRUE, 1), Piece("Technical", TRUE, 1)}

\* Technical terms, with the number of them that stand as whole words
TermPieces ==
    {NoPiece, Piece("Python, SQL", TRUE, 2),
     Piece("JavaScript Java Excel (Leadership) project management python",
           TRUE, 6),
     Piece("javascripts mysql sql_server", FALSE, 0)}

\* The number of words a text of the rubric has, filled up with the word
\* "x"
WordCounts == {40, 150, 151, 300, 301, 500, 501, 600}

\* The least of the word counts, more words than the pieces of an input
\* hold
FewWords ==
    CHOOSE words \in WordCounts : \A other \in WordCounts : words <= other

QuickInput(words, email, phone, experience, education, degree, skills, terms) ==
    [given |-> TRUE, words |-> words, email |-> email, phone |-> phone,
     experience |-> experience, education |-> education, degree |-> degree,
     skills |-> skills, terms |-> terms]

\* The first piece of a set that holds the signal, and no piece
Some(pieces) == CHOOSE piece \in pieces : piece.hit

\* Every combination of signals in a short text, every piece on its own,
\* and every word count without a signal and with the signals of a full
\* resume.
QuickInputs ==
    {QuickInput(FewWords, email, phone, experience, education, degree, skills,
                terms) :
        email \in {NoPiece, Some(EmailPieces)},
        phone \in {NoPiece, Some(PhonePieces)},
        experience \in {piece \in ExperiencePieces : piece.count \in {0, 4, 7}},
        education \in {NoPiece, Some(EducationPieces)},
        degree \in {NoPiece, Some(DegreePieces)},
        skills \in {NoPiece, Some(SkillsPieces)},
        terms \in {piece \in TermPieces : piece.count \in {0, 2, 6}}}
    \cup {QuickInput(FewWords, email, NoPiece, NoPiece, NoPiece, NoPiece,
                     NoPiece, NoPiece) : email \in EmailPieces}
    \cup {QuickInput(FewWords, NoPiece, phone, NoPiece, NoPiece, NoPiece,
                     NoPiece, NoPiece) : phone \in PhonePieces}
    \cup {QuickInput(FewWords, NoPiece, NoPiece, experience, NoPiece, NoPiece,
                     NoPiece, NoPiece) : experience \in ExperiencePieces}
    \cup {QuickInput(FewWords, NoPiece, NoPiece, NoPiece, education, degree,
                     skills, NoPiece) :
             education \in EducationPieces, degree \in DegreePieces,
             skills \in SkillsPieces}
    \cup {QuickInput(words, NoPiece, NoPiece, NoPiece, NoPiece, NoPiece,
                     NoPiece, NoPiece) : words \in WordCounts}
    \cup {QuickInput(words, Piece("jane.doe@example.com", TRUE, 1),
                     Piece("555-123-4567", TRUE, 1), experience, education,
                     Piece("Bachelor of Science", TRUE, 1),
                     Piece("Skills:", TRUE, 1), Piece("Python, SQL", TRUE, 2)) :
             words \in WordCounts,
             experience \in {piece \in ExperiencePieces : piece.count >= 4},
             education \in {NoPiece, Piece("Education", TRUE, 1)}}

\* The pieces of an input that hold text, in the order of a resume
PieceTexts(in) ==
    SelectSeq(<<in.email.text, in.phone.text, in.experience.text,
                in.education.text, in.degree.text, in.skills.text,
                in.terms.text>>,
              LAMBDA text : text # "")

\* The text of an input: its pieces, then the word "x" until the text has
\* in.words words.
QuickText(in) ==
    LET pieces == Join(PieceTexts(in), " ")
        written == IF pieces = "" THEN 0 ELSE WordCount(pieces)
    IN  IF pieces = "" THEN "x" \o Rep(" x", in.words - 1)
        ELSE pieces \o Rep(" x", in.words - written)

QuickInit ==
    /\ input \in QuickInputs
    /\ output = NoOutput
    /\ apiKey = Undefined
    /\ AnalyzerIdle
    /\ PostIdle
    /\ PageIdle

\* generateQuickScore applied to the text as written, in capitals and in
\* small letters
GenerateQuickScore ==
    /\ input.given
    /\ ~output.done
    /\ LET text == QuickText(input)
       IN  output' = [done |-> TRUE,
                      words |-> WordCount(text),
                      score |-> generateQuickScore(text),
                      upper |-> generateQuickScore(ToUpperCase(text)),
                      lower |-> generateQuickScore(ToLowerCase(text))]
    /\ UNCHANGED <<apiKey, pc, resumeInput, jobRole, openaiCalls, rawAnalysis,
                   normalized, analysis, error, postVars, input, pageVars>>

QuickNext == GenerateQuickScore

QuickSpec == QuickInit /\ [][QuickNext]_vars

----------------------------------------------------------------------------
(* Properties of generateQuickScore *)

\* C17: generateQuickScore returns an integer in [0,100] for every text,
\* and the same value for the text written in capitals and in small
\* letters.
C17_QuickScoreRangeAndCase ==
    output.done =>
        /\ output.score \in 0..100
        /\ output.upper = output.score
        /\ output.lower = output.score

\* C17's case: a text with keywords in both letter cases that scores points
\* for them.
C17_Witness ==
    /\ output.done
    /\ input.experience.count = 7
    /\ Includes(input.experience.text, "WORKED")
    /\ Includes(input.experience.text, "experience")
    /\ input.email = NoPiece /\ input.phone = NoPiece
    /\ output.score = 14
    /\ output.upper = 14
    /\ output.lower = 14

\* The sum of the rubric for the signals a text was written with
RubricSum(in) ==
    (IF in.words > 150 THEN 10 ELSE 0)
  + (IF in.words > 300 THEN 10 ELSE 0)
  + (IF in.words > 500 THEN 10 ELSE 0)
  + (IF in.email.hit THEN 10 ELSE 0)
  + (IF in.phone.hit THEN 10 ELSE 0)
  + (IF 2 * in.experience.count < 15 THEN 2 * in.experience.count ELSE 15)
  + (IF in.education.hit THEN 5 ELSE 0)
  + (IF in.degree.hit THEN 5 ELSE 0)
  + (IF in.skills.hit THEN 5 ELSE 0)
  + (IF in.terms.count < 5 THEN in.terms.count ELSE 5)

\* C18: for every combination of signals generateQuickScore is the sum of
\* the rubric: 10 for each word count threshold (150, 300, 500) passed, 10
\* for "@" or "email", 10 for a 3-3-4 phone pattern, 2 for each experience
\* keyword up to 15, 5 for education/degree/university, 5 for
\* bachelor/master/phd, 5 for skills/technical, 1 for each technical term
\* that matches up to 5, the sum clamped to [0,100].
C18_QuickScoreRubric ==
    output.done =>
        /\ output.words = input.words
        /\ output.score =
               (IF RubricSum(input) > 100 THEN 100
                ELSE IF RubricSum(input) < 0 THEN 0
                ELSE RubricSum(input))

\* C18's case: a short text with every signal, seven experience keywords
\* and six technical terms: 10 + 10 + 14 + 5 + 5 + 5 + 5.
C18_Witness ==
    /\ output.done
    /\ input.words = FewWords
    /\ input.email.hit /\ input.phone.hit
    /\ input.experience.count = 7
    /\ input.education.hit /\ input.degree.hit /\ input.skills.hit
    /\ input.terms.count = 6
    /\ output.score = 54

\* C19: a 40-word text without email, phone and keywords scores below 20,
\* and a 600-word resume with an email address, the phone number
\* 555-123-4567, at least 4 experience keywords, "Bachelor of Science" and
\* "Skills: Python, SQL" scores at least 60.
C19_QuickScoreBoundary ==
    output.done =>
        /\ (/\ input.words = 40
            /\ \A field \in {"email", "phone", "experience", "education",
                             "degree", "skills", "terms"} :
                   input[field] = NoPiece)
               => output.score < 20
        /\ (/\ input.words = 600
            /\ Includes(input.email.text, "@")
            /\ input.phone.text = "555-123-4567"
            /\ input.experience.count >= 4
            /\ input.degree.text = "Bachelor of Science"
            /\ input.skills.text = "Skills:"
            /\ input.terms.text = "Python, SQL")
               => output.score >= 60

\* C19's case: the 600-word resume with exactly 4 experience keywords and
\* no word of education scores 30 + 10 + 10 + 8 + 5 + 5 + 2.
C19_Witness ==
    /\ output.done
    /\ input.words = 600
    /\ output.words = 600
    /\ input.phone.text = "555-123-4567"
    /\ input.experience.count = 4
    /\ input.education = NoPiece
    /\ input.degree.text = "Bachelor of Science"
    /\ input.terms.text = "Python, SQL"
    /\ output.score = 70

\* The 40-word text of C19 without a signal, scored 0.
C19_WitnessShort ==
    /\ output.done
    /\ input.words = 40
    /\ input.email = NoPiece
    /\ output.words = 40
    /\ output.score = 0

----------------------------------------------------------------------------
(* cleanExtractedText applied to short texts *)

\* Letters, a digit, white space, and the form feed for a character
\* outside \x20-\x7E
CleanAlphabet == {"a", "B", "1", " ", "\t", "\n", "\r", "\f"}

\* The characters of the longer texts
NarrowAlphabet == {"a", "1", " ", "\n", "\f"}

\* Length of the texts over CleanAlphabet and over NarrowAlphabet
MaxCleanLen == 3
MaxNarrowLen == 5

\* The texts of n characters of an alphabet
RECURSIVE TextsOfLen(_, _)
TextsOfLen(alphabet, n) ==
    IF n = 0 THEN {""}
    ELSE {c \o t : c \in alphabet, t \in TextsOfLen(alphabet, n - 1)}

CleanTexts ==
    UNION {TextsOfLen(CleanAlphabet, n) : n \in 0..MaxCleanLen}
        \cup UNION {TextsOfLen(NarrowAlphabet, n) :
                       n \in (MaxCleanLen + 1)..MaxNarrowLen}

CleanInputs ==
    {Str(t) : t \in CleanTexts} \cup {Undefined, Null, Num(5), Arr(<<>>)}

CleanInit ==
    /\ input \in {[given |-> TRUE, text |-> text] : text \in CleanInputs}
    /\ output = NoOutput
    /\ apiKey = Undefined
    /\ AnalyzerIdle
    /\ PostIdle
    /\ PageIdle

\* cleanExtractedText applied to the text, and to its own result
CleanExtractedText ==
    /\ input.given
    /\ ~output.done
    /\ LET once == cleanExtractedText(input.text)
       IN  output' = [done |-> TRUE, once |-> once,
                      twice |-> cleanExtractedText(Str(once))]
    /\ UNCHANGED <<apiKey, pc, resumeInput, jobRole, openaiCalls, rawAnalysis,
                   normalized, analysis, error, postVars, input, pageVars>>

CleanNext == CleanExtractedText

CleanSpec == CleanInit /\ [][CleanNext]_vars

\* C20: cleanExtractedText is idempotent: applied to its own result it
\* returns that result, also where the removal of a character outside
\* \x20-\x7E or of a line of digits brings spaces or line feeds together.
C20_CleanIdempotent == output.done => output.twice = output.once

\* C21: cleanExtractedText is length-non-increasing: its result is never
\* longer than the text it was given, also where a space is inserted
\* between a lowercase and an uppercase letter, a letter and a digit, or a
\* digit and a letter (lines 94-96).
C21_CleanLengthNonIncreasing ==
    (output.done /\ input.text.t = "string")
        => Len(output.once) <= Len(input.text.s)

----------------------------------------------------------------------------
(* The analysis endpoint: POST (src/unnamed/part_000:9-138) *)

\* The least quick score POST lets through (line 78)
QuickScoreGate == 20

\* The length above which the content of a PDF resume is taken for data
\* that was not parsed (line 53)
UnparsedLength == 1000

\* A failure that carries what the normalizer had built.
FailureWithAnalysis(status, message) ==
    [sent |-> TRUE, success |-> FALSE, status |-> status,
     error |-> Str(message),
     analysis |-> IF Normalized THEN normalized.result.value ELSE Undefined]

\* A response of NextResponse.json: the fields of the body and the status
FailureResponse(status, message) ==
    [sent |-> TRUE, success |-> FALSE, status |-> status,
     error |-> Str(message), analysis |-> Undefined]

SuccessResponse(result) ==
    [sent |-> TRUE, success |-> TRUE, status |-> 200, error |-> Undefined,
     analysis |-> result]

\* The catch of POST (lines 110-137) for an Error with this message
ErrorResponse(message) ==
    IF Includes(message, "API key")
    THEN FailureResponse(503,
             "AI analysis service is temporarily unavailable. Please try again later.")
    ELSE IF Includes(message, "too short") \/ Includes(message, "required")
    THEN FailureResponse(400, message)
    ELSE IF Includes(message, "timeout") \/ Includes(message, "rate limit")
    THEN FailureResponse(429,
             "Service is busy. Please try again in a few minutes.")
    ELSE FailureResponse(500, message)

\* Lets every quick score through.
NeverBelowGate(score) == FALSE

\* quickScore < 20 (line 78)
BelowGate(score) == score < QuickScoreGate

\* resume.type === 'pdf' && resume.content.length > 1000
\* && !resume.content.includes('\n') (line 53)
LooksUnparsed(resume) ==
    /\ Get(resume, "type") = Str("pdf")
    /\ Len(resume.content.s) > UnparsedLength
    /\ ~Includes(resume.content.s, "\n")

\* The resume text after the branch of lines 53-74 for what
\* parseResponse.json() gave: the text parse-pdf returned with success, the
\* trimmed content otherwise.
FinalResumeContent(resume, parseResult) ==
    IF ~parseResult.rejects /\ parseResult.success THEN parseResult.text
    ELSE Trim(resume.content.s)

Respond(r, score) == [step |-> "respond", response |-> r, quickScore |-> score]

\* The body is read and passes the checks of lines 25-46.
Checked == [step |-> "checked"]

\* POST from the body request.json() resolved with to the branch of line 53
\* (lines 22-46): the response it returns, or Checked.  A body that is not
\* JSON rejects the await, null cannot be destructured.
CheckRequest(body) ==
    LET resume == Get(body, "resume")
        role   == Get(body, "jobRole")
    IN  IF body.t = "invalid"
        THEN Respond(ErrorResponse("Unexpected end of JSON input"), NotScored)
        ELSE IF body.t \in {"null", "undefined"}
        THEN Respond(ErrorResponse(
                 "Cannot destructure property 'resume' of '(intermediate value)' as it is null."),
                 NotScored)
        ELSE IF ~Truthy(resume) \/ ~Truthy(Get(resume, "content"))
        THEN Respond(FailureResponse(400, "Resume content is required"),
                     NotScored)
        ELSE IF ~Truthy(role)
        THEN Respond(FailureResponse(400, "Job role is required"), NotScored)
        ELSE IF role.t # "string"
        THEN Respond(ErrorResponse("jobRole.trim is not a function"), NotScored)
        ELSE IF Len(Trim(role.s)) = 0
        THEN Respond(FailureResponse(400, "Job role is required"), NotScored)
        ELSE IF resume.content.t # "string"
        THEN Respond(ErrorResponse("resume.content.trim is not a function"),
                     NotScored)
        ELSE IF Len(Trim(resume.content.s)) < MinResumeLength
        THEN Respond(FailureResponse(400,
                 "Resume content is too short. Please provide a complete resume with at least 100 characters."),
                 NotScored)
        ELSE Checked

\* jobDescription?.trim() (line 97): undefined for null and undefined; a
\* value of any other type but a string has no trim method.
TrimmedDescription(jobDescription) ==
    IF jobDescription.t \in {"null", "undefined"} THEN Undefined
    ELSE IF jobDescription.t = "string" THEN Str(Trim(jobDescription.s))
    ELSE Throw(TrimIsNotAFunction("jobDescription?"))

\* Lines 85-98 for a quick score that passed: the arguments of
\* analyzeResume, or the response to the TypeError of jobDescription?.trim()
\* thrown while they are computed.
Analyze(body, score, jobDescription) ==
    IF jobDescription.t = "throw"
    THEN Respond(ErrorResponse(jobDescription.s), score)
    ELSE [step |-> "analyze",
          resume |-> [content |-> Str(score.text),
                      type |-> Or(Get(Get(body, "resume"), "type"), Str("text"))],
          jobRole |-> Str(Trim(Get(body, "jobRole").s)),
          jobDescription |-> jobDescription,
          quickScore |-> score]

\* The quick score of line 77
Scored(final) ==
    [computed |-> TRUE, text |-> final, value |-> generateQuickScore(final)]

\* Lines 77-98 for the quick score computed: the response POST returns, or
\* the call of analyzeResume it makes.
Gate(body, score) ==
    IF BelowGate(score.value)
    THEN Respond(FailureResponse(400,
             "Resume content appears to be incomplete or improperly formatted. Please ensure your resume includes contact information, experience, and skills sections."),
             score)
    ELSE Analyze(body, score, TrimmedDescription(Get(body, "jobDescription")))

\* POST from the final resume text to its await of analyzeResume (lines
\* 77-98)
ScoreAndAnalyze(body, final) == Gate(body, Scored(final))

\* Resume texts of a request
TextOf(head, length) == head \o Rep("x", length - Len(head))

\* 120 characters with an email address and "Experience: ..."
ScenarioText == TextOf("Jane Doe jane.doe@example.com Experience: ", 120)

\* Texts with the quick scores 31, 20, 19 and 0
GoodText ==
    TextOf("jane@example.com 555-123-4567 Experience: worked on Skills: Python, SQL ",
           130)
GateText == TextOf("jane@example.com 555-123-4567 ", 110)
AlmostText ==
    TextOf("jane@example.com experience worked managed developed sql ", 110)
PlainText == Rep("lorem ", 39) \o "lorem"

\* Text that parse-pdf returns for a short document: quick score 20
ShortParsedText == TextOf("jane@example.com 555-123-4567 ", 60)

\* Content of a PDF resume that was not parsed
UnparsedData == Rep("JVBERi0xLjQK", 84)

Resume(content, type) == [t |-> "object", content |-> content, type |-> type]

Resumes ==
    {Undefined, Null, Str("resume"), Resume(Undefined, Str("text")),
     Resume(Str(""), Undefined), Resume(Num(5), Str("text")),
     Resume(Str("  " \o Rep("x", MinResumeLength - 1) \o " \n"), Str("text")),
     Resume(Str(ScenarioText), Str("text")),
     Resume(Str(" " \o GoodText \o "\n"), Undefined),
     Resume(Str(GoodText), Str("pdf")),
     Resume(Str(GateText), Str("text")),
     Resume(Str(AlmostText), Str("text")),
     Resume(Str(PlainText), Str("text")),
     Resume(Str(UnparsedData), Str("pdf")),
     Resume(Str(UnparsedData), Str("text"))}

RequestRoles ==
    {Undefined, Null, Str(""), Str("   "), Num(7), Str("Data Scientist"),
     Str("  marketing manager "), Str("Astronaut")}

\* Values of jobDescription in a request
JobDescriptions ==
    {Null, Str("  Builds models in Python and SQL \n"), Str(""), Num(5), Num(0),
     Bool(TRUE), Bool(FALSE), Arr(<<>>), EmptyObj}

Body(resume, role) == [t |-> "object", resume |-> resume, jobRole |-> role]

Described(body, jobDescription) ==
    [f \in DOMAIN body \cup {"jobDescription"} |->
        IF f = "jobDescription" THEN jobDescription ELSE body[f]]

\* What request.json() gives: an object, null, or text that is not JSON.
\* The job description varies for a resume that passes the gate, one that
\* does not, and one that is sent to parse-pdf.
Bodies ==
    {Body(resume, role) : resume \in Resumes, role \in RequestRoles}
    \cup {Described(Body(resume, role), jobDescription) :
              resume \in {Resume(Str(GoodText), Str("pdf")),
                          Resume(Str(PlainText), Str("text")),
                          Resume(Str(UnparsedData), Str("pdf"))},
              role \in {Str("Data Scientist"), Str("   ")},
              jobDescription \in JobDescriptions}
    \cup {Null, [t |-> "invalid"], EmptyObj}

\* What the request to parse-pdf gives: the fetch rejects, or resolves with
\* a response that is ok or not
ParseResponses == {[rejects |-> TRUE, ok |-> FALSE]}
                      \cup {[rejects |-> FALSE, ok |-> ok] : ok \in BOOLEAN}

\* What parseResponse.json() gives: it rejects, or resolves with the body
\* of the response
ParseResults ==
    {[rejects |-> TRUE, success |-> FALSE, text |-> ""],
     [rejects |-> FALSE, success |-> FALSE, text |-> ""]}
        \cup {[rejects |-> FALSE, success |-> TRUE, text |-> text] :
                 text \in {GoodText, PlainText, ShortParsedText}}

\* Payloads of the external service in the endpoint
PostPayloads ==
    {Null, EmptyObj,
     Payload(Num(75), Str("Solid resume."), Undefined, GoodKeyFindings,
             GoodJobAlignment, Undefined),
     Payload(Num(75), Str("Solid resume."), Undefined,
             KeyFindings(Arr(<<>>), Arr(<<>>), Arr(<<Str("SQL databases")>>),
                         Num(8), Arr(<<>>)),
             GoodJobAlignment, Undefined),
     Payload(Num(75), Str("Solid resume."), Undefined,
             KeyFindings(Arr(<<>>), Arr(<<>>), Arr(<<Null>>), Num(8),
                         Arr(<<>>)),
             GoodJobAlignment, Undefined),
     [t |-> "object", overallScore |-> Num(64), keyFindings |-> GoodKeyFindings],
     [t |-> "object", overallScore |-> NoToString],
     Payload(Num(120), Str("Solid resume."),
             Arr(<<SecExperience, SecTechnicalSkills, SecSkills>>),
             GoodKeyFindings, GoodJobAlignment, Str("extra")),
     Payload(Str("high"), Undefined, Arr(<<SecProjects>>), Str("none"), Null,
             Undefined),
     Payload(Num(40), Str("Sections vary."), Arr(<<SecExperience, SecNoName>>),
             GoodKeyFindings, GoodJobAlignment, Undefined)}

PostInit ==
    /\ apiKey \in ApiKeys
    /\ AnalyzerIdle
    /\ PostIdle
    /\ PageIdle
    /\ PureIdle

\* POST returns a response, or calls analyzeResume, which runs up to its own
\* await, and awaits it.
PostGoesOn(handled) ==
    /\ quickScore' = handled.quickScore
    /\ IF handled.step = "respond"
       THEN /\ response' = handled.response
            /\ pc' = "responded"
            /\ request' = [request EXCEPT !.at = "done"]
            /\ UNCHANGED <<apiKey, resumeInput, jobRole, openaiCalls,
                           rawAnalysis, normalized, analysis, error>>
       ELSE /\ AnalyzeResumeCalled(handled.resume, handled.jobRole)
            /\ request' = [request EXCEPT !.at = "analyzeResume"]
            /\ UNCHANGED response
    /\ UNCHANGED <<pureVars, pageVars>>

\* POST stays suspended, now at another await.
PostAwaits(at) ==
    /\ request' = [request EXCEPT !.at = at]
    /\ UNCHANGED <<apiKey, pc, resumeInput, jobRole, openaiCalls, rawAnalysis,
                   normalized, analysis, error, quickScore, response,
                   pureVars, pageVars>>

\* POST from the request to its await of request.json() (lines 10-22): the
\* credential is checked before the body is read.
Post(body) ==
    /\ ~request.received
    /\ IF ~validateOpenAIKey(apiKey)
       THEN /\ request' = Received(body, "done")
            /\ response' = FailureResponse(503,
                   "AI analysis service is not configured. Please contact the administrator.")
            /\ pc' = "responded"
       ELSE /\ request' = Received(body, "json")
            /\ UNCHANGED <<response, pc>>
    /\ UNCHANGED <<apiKey, resumeInput, jobRole, openaiCalls, rawAnalysis,
                   normalized, analysis, error, quickScore, pureVars,
                   pageVars>>

\* request.json() resolves or rejects: POST runs from line 22 to a
\* response, to its await of fetch (line 56), or to its await of
\* analyzeResume (line 94).
RequestJsonResolves ==
    /\ request.received
    /\ request.at = "json"
    /\ IF CheckRequest(request.body).step = "respond"
       THEN PostGoesOn(CheckRequest(request.body))
       ELSE IF LooksUnparsed(request.body.resume)
       THEN PostAwaits("fetch")
       ELSE PostGoesOn(ScoreAndAnalyze(request.body,
                                       Trim(request.body.resume.content.s)))

\* The fetch of parse-pdf resolves or rejects (lines 56-73): POST awaits
\* the body of a response that is ok, and goes on with the trimmed content
\* otherwise.
ParsePdfResponds(parseResponse) ==
    /\ request.received
    /\ request.at = "fetch"
    /\ IF ~parseResponse.rejects /\ parseResponse.ok
       THEN PostAwaits("parseResponse.json")
       ELSE PostGoesOn(ScoreAndAnalyze(request.body,
                                       Trim(request.body.resume.content.s)))

\* parseResponse.json() resolves or rejects (lines 66-98).
ParseResultResolves(parseResult) ==
    /\ request.received
    /\ request.at = "parseResponse.json"
    /\ PostGoesOn(ScoreAndAnalyze(
           request.body,
           FinalResumeContent(request.body.resume, parseResult)))

\* POST after its await of analyzeResume (lines 100-137)
PostRespond ==
    /\ request.received
    /\ request.at = "analyzeResume"
    /\ ~response.sent
    /\ pc \in {"returned", "thrown"}
    /\ response' = IF pc = "returned" THEN SuccessResponse(analysis.value)
                   ELSE ErrorResponse(error)
    /\ pc' = "responded"
    /\ request' = [request EXCEPT !.at = "done"]
    /\ UNCHANGED <<apiKey, resumeInput, jobRole, openaiCalls, rawAnalysis,
                   normalized, analysis, error, quickScore, pureVars, pageVars>>

\* Messages of the errors callOpenAI throws in the endpoint: failures of
\* the request, a completion without content, and content that is not JSON
ServiceErrors ==
    UpstreamErrors \cup
        {"Connection timeout", "rate limit exceeded",
         "401 Incorrect API key provided",
         "400 Missing required parameter: 'messages'",
         "No response received from OpenAI API",
         "Unexpected token < in JSON at position 0"}

PostNext ==
    \/ \E body \in Bodies : Post(body)
    \/ RequestJsonResolves
    \/ \E parseResponse \in ParseResponses : ParsePdfResponds(parseResponse)
    \/ \E parseResult \in ParseResults : ParseResultResolves(parseResult)
    \/ \E message \in ServiceErrors : CallOpenAIThrows(message)
    \/ \E raw \in PostPayloads : CallOpenAIReturns(raw)
    \/ PostRespond

PostSpec == PostInit /\ [][PostNext]_vars

----------------------------------------------------------------------------
(* Properties of the analysis endpoint *)

IncompleteResume ==
    "Resume content appears to be incomplete or improperly formatted. Please ensure your resume includes contact information, experience, and skills sections."

\* C11: in the analysis endpoint a quick score below 20 of the text that
\* would be analysed is answered with the "incomplete or improperly
\* formatted" error without a call of the external service, and the
\* external service is called only after a quick score of at least 20 was
\* computed for the text that is analysed.
C11_QuickScoreGate ==
    /\ (quickScore.computed /\ quickScore.value < 20) =>
           /\ response.sent
           /\ ~response.success
           /\ response.status = 400
           /\ response.error = Str(IncompleteResume)
           /\ openaiCalls = 0
    /\ openaiCalls > 0 =>
           /\ quickScore.computed
           /\ quickScore.value >= 20
           /\ resumeInput.content = Str(quickScore.text)
           /\ quickScore.value = generateQuickScore(resumeInput.content.s)

\* C11's case: a text of 110 characters with the quick score 19 is
\* rejected and nothing was sent.
C11_Witness ==
    /\ quickScore.computed
    /\ quickScore.value = 19
    /\ Len(quickScore.text) >= MinResumeLength
    /\ response.sent
    /\ response.status = 400
    /\ openaiCalls = 0

\* The credential of the external service is set and is not the
\* placeholder.
Configured == apiKey.t = "string" /\ apiKey.s \notin {"", PlaceholderKey}

\* POST is past its await of request.json(): the body of the request is
\* read.
BodyRead == request.received /\ request.at # "json"

\* The request of scenario A: a resume text of 120 characters (an email
\* address and "Experience: ...") and a job role that is absent or empty.
ScenarioNoJobRole ==
    /\ request.body.t = "object"
    /\ RawField(request.body, "resume") = Resume(Str(ScenarioText), Str("text"))
    /\ RawField(request.body, "jobRole")
           \in {Undefined, Null, Str(""), Str("   ")}

\* The answer of scenario A: status 400 with "Job role is required", and
\* no call of the external service.
AnsweredJobRoleRequired ==
    /\ response.sent
    /\ ~response.success
    /\ response.status = 400
    /\ response.error = Str("Job role is required")
    /\ openaiCalls = 0
    /\ pc = "responded"

\* C12 as stated: a request whose resume text has 120 characters (an email
\* address and "Experience: ...") and whose job role is absent or empty is
\* answered with status 400 and "Job role is required", and the external
\* service is not called.  Nothing is said of the credential: without it
\* the same request is answered with 503 (part_000:14-18).
C12_ScenarioNoJobRole ==
    (BodyRead /\ ScenarioNoJobRole) => AnsweredJobRoleRequired

\* C12, amended: with the credential of the external service configured,
\* a request whose resume text has 120 characters and whose job role is
\* absent or empty is answered, once its body is read, with status 400 and
\* "Job role is required", and the external service is not called.
C12_ScenarioNoJobRoleConfigured ==
    (Configured /\ BodyRead /\ ScenarioNoJobRole) => AnsweredJobRoleRequired

\* C12's case: the text of 120 characters with a job role of blanks.
C12_Witness ==
    /\ Configured
    /\ request.received
    /\ request.body.t = "object"
    /\ RawField(request.body, "resume") = Resume(Str(ScenarioText), Str("text"))
    /\ Len(ScenarioText) = 120
    /\ Includes(ScenarioText, "@") /\ Includes(ScenarioText, "Experience: ")
    /\ RawField(request.body, "jobRole") = Str("   ")
    /\ response.sent
    /\ response.status = 400

\* C13: when the credential is unset, empty or the placeholder, every
\* request is answered with status 503, not 400, and nothing is sent to
\* the external service.
C13_UnconfiguredCredential ==
    (/\ apiKey \in {Undefined, Str(""), Str(PlaceholderKey)}
     /\ request.received) =>
        /\ response.sent
        /\ ~response.success
        /\ response.status = 503
        /\ openaiCalls = 0

\* C13's case: the placeholder key and a request that is otherwise
\* rejected with 400.
C13_Witness ==
    /\ apiKey = Str(PlaceholderKey)
    /\ request.received
    /\ request.body.t = "object"
    /\ RawField(request.body, "jobRole") = Undefined
    /\ response.sent
    /\ response.status = 503

\* The call of the external service failed: it was made, it is over, and
\* it returned no payload.
CallFailed ==
    /\ openaiCalls >= 1
    /\ pc \in {"thrown", "responded"}
    /\ ~normalized.called

\* C14: within one request the external service is called at most once;
\* when the call fails, analyzeResume throws, the response is a failure,
\* and the call is not made again.
C14_SingleAttempt ==
    /\ openaiCalls <= 1
    /\ CallFailed =>
           /\ Includes(error, "Failed to analyze resume: ")
           /\ response.sent =>
                  (~response.success /\ response.status >= 400)

\* C14's case: the call failed and the failure was answered.
C14_Witness ==
    /\ CallFailed
    /\ error = "Failed to analyze resume: Request timed out."
    /\ response.sent
    /\ ~response.success
    /\ openaiCalls = 1

AnalysisFields ==
    {"overallScore", "maxOverallScore", "summary", "sections", "keyFindings",
     "jobAlignment"}

\* C15: every response of the endpoint is a success that carries the
\* whole analysis, normalized and enriched, or a failure that carries an
\* error and no analysis, whatever stage failed.
C15_AllOrNothing ==
    response.sent =>
        \/ /\ response.success
           /\ response.status = 200
           /\ response.error = Undefined
           /\ Normalized
           /\ analysis.returned
           /\ response.analysis = analysis.value
           /\ response.analysis
                  = enhanceAnalysisWithJobInsights(normalized.result.value,
                                                   jobRole.s).analysis
           /\ DOMAIN response.analysis = AnalysisFields
        \/ /\ ~response.success
           /\ response.status \in {400, 429, 500, 503}
           /\ response.error.t = "string"
           /\ response.error.s # ""
           /\ response.analysis = Undefined

\* C15's case: the normalizer returned an analysis, the enricher threw,
\* and the response is a failure without analysis.
C15_Witness ==
    /\ response.sent
    /\ Normalized
    /\ ~analysis.returned
    /\ ~response.success
    /\ response.analysis = Undefined

\* C16: for a valid resume text, the role "Data Scientist" and a raw
\* payload without the field sections, normalizer and enricher complete
\* without raising and the sections of the final analysis are the empty
\* sequence.
C16_ScenarioMissingSections ==
    (/\ normalized.called
     /\ jobRole = Str("Data Scientist")
     /\ rawAnalysis.t = "object"
     /\ RawField(rawAnalysis, "sections") = Undefined) =>
        /\ ~normalized.result.threw
        /\ pc \in {"returned", "responded"}
        /\ analysis.returned
        /\ analysis.value.sections = <<>>
        /\ response.sent =>
               (response.success /\ response.analysis.sections = <<>>)

\* The message of the error the external service failed with, which
\* analyzeResume wrapped (part_002:46)
UpstreamMessage ==
    SubSeq(error, Len(FailedToAnalyze("")) + 1, Len(error))

\* The messages POST writes itself for a failure of the analysis
GenericMessages ==
    {"AI analysis service is temporarily unavailable. Please try again later.",
     "Service is busy. Please try again in a few minutes.",
     "Failed to analyze resume. Please try again."}

\* C25: whenever the call of the external scoring service fails, whatever
\* the message of its error, the error text of the endpoint's response is
\* one of the fixed generic messages and does not contain the message of
\* the upstream error.
C25_NonLeakingErrors ==
    (CallFailed /\ response.sent) =>
        /\ response.error.s \in GenericMessages
        /\ ~Includes(response.error.s, UpstreamMessage)

\* The request violates a precondition of the caller: no resume text or
\* one of fewer than 100 characters once trimmed, no job role or a blank one
PreconditionViolated ==
    /\ BodyRead
    /\ request.body.t = "object"
    /\ LET resume  == RawField(request.body, "resume")
           content == RawField(resume, "content")
           role    == RawField(request.body, "jobRole")
       IN  \/ content \in {Undefined, Null, Str("")}
           \/ role \in {Undefined, Null, Str("")}
           \/ (/\ content.t = "string"
               /\ role.t = "string"
               /\ \/ Trim(role.s) = ""
                  \/ Len(Trim(content.s)) < MinResumeLength)

\* C26: the analysis endpoint reports a missing credential as 503, a
\* violated precondition of the caller, once the body is read, as 400 and
\* never as a service error
\* (429, 500, 503), an upstream rate limit or timeout as 429, and a failure
\* of the external scoring service never as 400, whatever the text of its
\* error message.
C26_FailureClassification ==
    /\ (request.received /\ ~Configured) =>
           (response.sent /\ response.status = 503)
    /\ (Configured /\ PreconditionViolated) =>
           (response.sent /\ response.status = 400)
    /\ (CallFailed /\ response.sent) =>
           /\ response.status # 400
           /\ UpstreamMessage \in {"429 Rate limit reached for requests",
                                   "rate limit exceeded", "Request timed out.",
                                   "Connection timeout"}
                  => response.status = 429

----------------------------------------------------------------------------
(* The extraction endpoint: POST (src/src/app/api/parse-pdf/route.ts) *)

\* The ceiling POST passes to validatePDFFile (line 31)
MaxUploadMB == 10

\* The least length of a cleaned text POST accepts (line 52)
MinExtractedLength == 50

\* A string fileData, given by what line 21-22 makes of it: whether it has
\* a data-URI prefix for .replace(/^data:.*,/, '') to strip, and the bytes
\* Buffer.from(base64Data, 'base64') decodes the rest to.
Base64(dataUri, buffer) == [t |-> "base64", dataUri |-> dataUri, buffer |-> buffer]

ExtractFailure(status, message) ==
    [sent |-> TRUE, success |-> FALSE, status |-> status,
     error |-> Str(message)]

ExtractSuccess(text, filename, pages) ==
    [sent |-> TRUE, success |-> TRUE, status |-> 200, text |-> text,
     filename |-> Or(filename, Str("resume.pdf")), pages |-> pages]

NotValidated == [done |-> FALSE]

\* POST from the body request.json() gave to its await of parsePDFBuffer
\* (lines 9-40): the response it returns at once, or the buffer it hands to
\* parsePDFBuffer.
ExtractRequest(body) ==
    IF body.t # "object"
    THEN [step |-> "respond", validation |-> NotValidated,
          response |-> ExtractFailure(500, body.message)]
    ELSE IF ~Truthy(body.fileData)
    THEN [step |-> "respond", validation |-> NotValidated,
          response |-> ExtractFailure(400, "No file data provided")]
    ELSE IF body.fileData.t # "base64"
    THEN [step |-> "respond", validation |-> NotValidated,
          response |-> ExtractFailure(400, "Invalid file data format")]
    ELSE LET buffer     == body.fileData.buffer
             validation == validatePDFFile(buffer, MaxUploadMB)
             validated  == [done |-> TRUE, buffer |-> buffer,
                            result |-> validation]
         IN  IF ~validation.valid
             THEN [step |-> "respond", validation |-> validated,
                   response |-> ExtractFailure(400, validation.error)]
             ELSE [step |-> "parse", validation |-> validated,
                   buffer |-> buffer]

TooShortOrEmpty ==
    "Extracted text is too short or empty. "
        \o "Please ensure your PDF contains readable text content."

\* Accepts a cleaned text of any length but zero.
AnyLength(cleanedText) == cleanedText = ""

\* !cleanedText || cleanedText.length < 50 (line 52)
TooShort(cleanedText) ==
    cleanedText = "" \/ Len(cleanedText) < MinExtractedLength

\* POST after its await of parsePDFBuffer (lines 42-67)
ExtractResponse(body, parseResult) ==
    IF ~parseResult.success THEN ExtractFailure(400, parseResult.error)
    ELSE LET cleanedText == cleanExtractedText(Or(parseResult.text, Str("")))
         IN  IF TooShort(cleanedText)
             THEN ExtractFailure(400, TooShortOrEmpty)
             ELSE ExtractSuccess(Str(cleanedText), body.filename,
                                 parseResult.pages)

\* The ceiling in bytes
Ceiling == MaxUploadMB * BytesPerMB

\* First bytes: "%PDF-1.4"; the PNG signature; "%PDF-1.4" with the highest
\* bit of the first five bytes set; "PDF-1.4\n"; "%pdf-1.4"
PdfHead == PdfMagic \o <<49, 46, 52>>
PngHead == <<137, 80, 78, 71, 13, 10, 26, 10>>
HighBitHead == <<165, 208, 196, 198, 173, 49, 46, 52>>
NoPercentHead == <<80, 68, 70, 45, 49, 46, 52, 10>>
LowerCaseHead == <<37, 112, 100, 102, 45, 49, 46, 52>>

Heads == {PdfHead, PngHead, HighBitHead, NoPercentHead, LowerCaseHead}

BufferLengths == {8, 4096, Ceiling - 1, Ceiling, Ceiling + 1, 2 * Ceiling}

Buffers ==
    {Buffer(0, <<>>), Buffer(4, SubSeq(PdfMagic, 1, 4)), Buffer(5, PdfMagic),
     Buffer(5, SubSeq(PngHead, 1, 5))}
        \cup {Buffer(n, head) : n \in BufferLengths, head \in Heads}

ExtractBody(fileData, filename) ==
    [t |-> "object", fileData |-> fileData, filename |-> filename]

ExtractBodies ==
    {[t |-> "invalid", message |-> "Unexpected end of JSON input"]}
        \cup {ExtractBody(fileData, Undefined) :
                 fileData \in {Undefined, Null, Str(""), Num(5)}}
        \cup {ExtractBody(Base64(FALSE, buffer), Str("cv.pdf")) :
                 buffer \in Buffers}
        \cup {ExtractBody(Base64(TRUE, buffer), filename) :
                 buffer \in {Buffer(0, <<>>), Buffer(4096, PdfHead),
                             Buffer(4096, PngHead)},
                 filename \in {Undefined, Str("")}}

\* Texts of pdfParse: 50 and 49 characters that cleaning leaves alone; 67
\* characters that clean to 8; 49 characters that clean to 50; the 50
\* characters between white space
ExactText == TextOf("Jane Doe, Engineer. ", MinExtractedLength)
ShortByOne == TextOf("Jane Doe, Engineer. ", MinExtractedLength - 1)
SpacedText == "Jane" \o Rep(" ", 60) \o "Doe"
CamelText == TextOf("JaneDoe: engineer, ", MinExtractedLength - 1)
PaddedText == "  " \o ExactText \o "\n\f"

PdfData(text, numpages) ==
    [kind |-> "data", text |-> text, numpages |-> numpages]

PdfThrows(isError, message) ==
    [kind |-> "throws", isError |-> isError, message |-> message]

\* How the import of pdf-parse ends
PdfParseImports ==
    {[kind |-> "imported"],
     [kind |-> "import fails", message |-> "Cannot find module 'pdf-parse'"]}

PdfParseOutcomes ==
    {PdfThrows(TRUE, message) :
                 message \in {"Invalid PDF structure", "No password given",
                              "The file is corrupted", "bad XRef entry"}}
        \cup {PdfThrows(FALSE, "password")}
        \cup {PdfData(text, 1) : text \in {Undefined, Str(""), Str(" \n ")}}
        \cup {PdfData(Str(text), 2) :
                 text \in {ExactText, ShortByOne, SpacedText, CamelText,
                           PaddedText}}

ExtractInit ==
    /\ apiKey = Undefined
    /\ AnalyzerIdle
    /\ PostIdle
    /\ PageIdle
    /\ PureIdle

\* POST from the request to its await of the import of the parser (lines
\* 3-6)
ExtractPost(body) ==
    /\ ~request.received
    /\ request' = [received |-> TRUE, body |-> body,
                   validation |-> NotValidated, at |-> "import"]
    /\ UNCHANGED <<apiKey, pc, resumeInput, jobRole, openaiCalls, rawAnalysis,
                   normalized, analysis, error, quickScore, response, input,
                   output, pageVars>>

\* The import resolves: POST awaits request.json() (line 9).
ImportResolves ==
    /\ request.received
    /\ request.at = "import"
    /\ request' = [request EXCEPT !.at = "json"]
    /\ UNCHANGED <<apiKey, pc, resumeInput, jobRole, openaiCalls, rawAnalysis,
                   normalized, analysis, error, quickScore, response, input,
                   output, pageVars>>

\* request.json() resolves or rejects: POST runs to the response it
\* returns before the parser is called, or to its await of parsePDFBuffer
\* (lines 9-40), which runs to its await of the import of pdf-parse
\* (pdf-parser.ts:19).
ExtractJsonResolves ==
    /\ request.received
    /\ request.at = "json"
    /\ LET handled == ExtractRequest(request.body)
       IN  /\ IF handled.step = "respond"
              THEN /\ response' = handled.response
                   /\ request' = [request EXCEPT
                                      !.validation = handled.validation,
                                      !.at = "done"]
                   /\ UNCHANGED input
              ELSE /\ input' = [given |-> TRUE, buffer |-> handled.buffer]
                   /\ request' = [request EXCEPT
                                      !.validation = handled.validation,
                                      !.at = "import pdf-parse"]
                   /\ UNCHANGED response
    /\ UNCHANGED <<apiKey, pc, resumeInput, jobRole, openaiCalls, rawAnalysis,
                   normalized, analysis, error, quickScore, output,
                   pageVars>>

\* parsePDFBuffer returns and POST, which awaited it, responds (lines
\* 40-67).
ParsePDFReturns(parseResult) ==
    /\ output' = [done |-> TRUE, result |-> parseResult]
    /\ response' = ExtractResponse(request.body, parseResult)
    /\ request' = [request EXCEPT !.at = "done"]

\* The import of pdf-parse resolves or rejects (pdf-parser.ts:19-30):
\* parsePDFBuffer returns a failure, or calls pdfParse and awaits it.
PdfParseImportSettles(imported) ==
    /\ request.received
    /\ request.at = "import pdf-parse"
    /\ input.given
    /\ ~output.done
    /\ LET entered == PdfParseImported(input.buffer, imported)
       IN  IF entered.step = "return"
           THEN ParsePDFReturns(entered.result)
           ELSE /\ request' = [request EXCEPT !.at = "pdfParse"]
                /\ UNCHANGED <<output, response>>
    /\ UNCHANGED <<apiKey, pc, resumeInput, jobRole, openaiCalls, rawAnalysis,
                   normalized, analysis, error, quickScore, input, pageVars>>

\* pdfParse(buffer) resolves or rejects (pdf-parser.ts:30-69):
\* parsePDFBuffer returns and POST responds.
PdfParseSettles(outcome) ==
    /\ request.received
    /\ request.at = "pdfParse"
    /\ input.given
    /\ ~output.done
    /\ ParsePDFReturns(PdfParsed(outcome))
    /\ UNCHANGED <<apiKey, pc, resumeInput, jobRole, openaiCalls, rawAnalysis,
                   normalized, analysis, error, quickScore, input, pageVars>>

ExtractNext ==
    \/ \E body \in ExtractBodies : ExtractPost(body)
    \/ ImportResolves
    \/ ExtractJsonResolves
    \/ \E imported \in PdfParseImports : PdfParseImportSettles(imported)
    \/ \E outcome \in PdfParseOutcomes : PdfParseSettles(outcome)

ExtractSpec == ExtractInit /\ [][ExtractNext]_vars

----------------------------------------------------------------------------
(* Properties of the extraction endpoint *)

Validated == request.received /\ request.validation.done

\* The first five bytes of the buffer are not "%PDF-".
WrongSignature(buffer) ==
    Len(buffer.head) < 5 \/ SubSeq(buffer.head, 1, 5) # PdfMagic

\* C22: validatePDFFile rejects every non-empty buffer whose first five
\* bytes are not "%PDF-" with the format error, whatever its size and the
\* rest of its content, and the extraction endpoint never hands such a
\* buffer to parsePDFBuffer.
C22_SignatureCheck ==
    /\ (Validated /\ request.validation.buffer.length > 0
            /\ WrongSignature(request.validation.buffer))
         => request.validation.result = Invalid(NotPdfFormat)
    /\ input.given => ~WrongSignature(input.buffer)

\* The result is the rejection for size.
IsTooLarge(result) ==
    ~result.valid /\ Includes(result.error, "exceeds maximum allowed size")

\* C23: validatePDFFile rejects an empty buffer, rejects as too large every
\* buffer longer than the ceiling of 10 * 1024 * 1024 bytes, and does not
\* reject for its size a buffer of exactly that length; parsePDFBuffer is
\* called only with a buffer that validation accepted.
C23_SizeAndEmptiness ==
    /\ Validated =>
           LET buffer == request.validation.buffer
               result == request.validation.result
           IN  /\ buffer.length = 0 => ~result.valid /\ ~IsTooLarge(result)
               /\ buffer.length > 10 * 1024 * 1024 => IsTooLarge(result)
               /\ buffer.length = 10 * 1024 * 1024 => ~IsTooLarge(result)
    /\ input.given =>
           /\ Validated
           /\ request.validation.result.valid
           /\ input.buffer = request.validation.buffer

\* A buffer of exactly the ceiling's length passed validation and was
\* handed to parsePDFBuffer.
C23_Witness ==
    /\ input.given
    /\ input.buffer.length = 10 * 1024 * 1024
    /\ request.validation.result.valid

\* A buffer one byte longer than the ceiling was rejected as too large.
C23_WitnessTooLarge ==
    /\ Validated
    /\ request.validation.buffer.length = 10 * 1024 * 1024 + 1
    /\ response.sent
    /\ response.error =
           Str("File size (10.00MB) exceeds maximum allowed size of 10MB")

\* C24: the extraction endpoint reports success only when validation
\* passed, parsePDFBuffer reported success and the cleaned text has at
\* least 50 characters; a cleaned text of fewer than 50 characters is
\* reported as a failure although parsePDFBuffer succeeded; the text of a
\* success response is the cleaned text, not the text parsePDFBuffer
\* returned.
C24_TooShortGate ==
    /\ (response.sent /\ response.success) =>
           /\ Validated
           /\ request.validation.result.valid
           /\ output.done
           /\ output.result.success
           /\ Len(response.text.s) >= 50
           /\ response.text = Str(cleanExtractedText(output.result.text))
    /\ (output.done /\ output.result.success
            /\ Len(cleanExtractedText(output.result.text)) < 50)
         => (response.sent /\ ~response.success /\ response.status = 400)

\* parsePDFBuffer returned a text of 50 characters or more that cleans to
\* fewer than 50, and the endpoint reported a failure.
C24_Witness ==
    /\ output.done
    /\ output.result.success
    /\ Len(output.result.text.s) >= 50
    /\ Len(cleanExtractedText(output.result.text)) < 50
    /\ response.sent
    /\ ~response.success

\* A success whose text is not the text parsePDFBuffer returned
C24_WitnessCleaned ==
    /\ response.sent
    /\ response.success
    /\ response.text # output.result.text
    /\ Len(response.text.s) = 50

----------------------------------------------------------------------------
(* enhanceAnalysisWithJobInsights applied to its own result *)

\* Analyses as validateAndStructureAnalysis returns them
EnrichAnalyses ==
    {validateAndStructureAnalysis(raw).value :
        raw \in {p \in EnrichPayloads : ~validateAndStructureAnalysis(p).threw}}

EnrichInit ==
    /\ input \in {[given |-> TRUE, analysis |-> a, jobRole |-> title] :
                     a \in EnrichAnalyses, title \in JobRoleTitles}
    /\ output = NoOutput
    /\ apiKey = Undefined
    /\ AnalyzerIdle
    /\ PostIdle
    /\ PageIdle

\* enhanceAnalysisWithJobInsights applied to the analysis, and to the
\* analysis it returned
EnhanceTwice ==
    /\ input.given
    /\ ~output.done
    /\ LET once == enhanceAnalysisWithJobInsights(input.analysis,
                                                  input.jobRole)
       IN  output' = [done |-> TRUE, once |-> once,
                      twice |-> IF once.threw THEN once
                                ELSE enhanceAnalysisWithJobInsights(
                                         once.analysis, input.jobRole)]
    /\ UNCHANGED <<apiKey, pc, resumeInput, jobRole, openaiCalls, rawAnalysis,
                   normalized, analysis, error, postVars, input, pageVars>>

EnrichNext == EnhanceTwice

EnrichSpec == EnrichInit /\ [][EnrichNext]_vars

\* No entry occurs twice in the sequence.
NoDuplicates(xs) ==
    \A j, k \in 1..Len(xs) : xs[j] = xs[k] => j = k

\* C29: enriching the result of an enrichment again with the same role
\* appends no further entry to keyFindings.missingSkills, and the entries
\* an enrichment appended hold no skill twice.
C29_MissingSkillsFixedPoint ==
    (output.done /\ ~output.once.threw) =>
        /\ ~output.twice.threw
        /\ output.twice.analysis.keyFindings.missingSkills
               = output.once.analysis.keyFindings.missingSkills
        /\ NoDuplicates(Appended(input.analysis.keyFindings.missingSkills,
                                 output.once.analysis.keyFindings.missingSkills))

\* C29's case: an enrichment that appended skills to missing skills that
\* were there, enriched again.
C29_Witness ==
    /\ output.done
    /\ ~output.once.threw
    /\ input.jobRole = "Data Scientist"
    /\ Len(input.analysis.keyFindings.missingSkills) > 0
    /\ Len(output.once.analysis.keyFindings.missingSkills)
           > Len(input.analysis.keyFindings.missingSkills) + 1
    /\ ~output.twice.threw
    /\ Len(output.twice.analysis.jobAlignment.recommendations)
           > Len(output.once.analysis.jobAlignment.recommendations)

----------------------------------------------------------------------------
(* The page: HomePage (src/src/app/page.tsx) *)

\* Calls of handleResumeUpload and handleRoleSelection in one run, the
\* FileReader reads that will call handleResumeUpload included
MaxHandlerCalls == 4

ThreeDigits(k) == CharAt(Digits, (k \div 100) + 1) \o TwoDigits(k % 100)

RECURSIVE DropTrailingZeros(_)
DropTrailingZeros(s) ==
    IF Len(s) > 0 /\ CharAt(s, Len(s)) = "0"
    THEN DropTrailingZeros(SubSeq(s, 1, Len(s) - 1))
    ELSE s

\* ${ms / 1000} of the template literal (line 139), for a whole number of
\* milliseconds
SecondsText(ms) ==
    NatToString(ms \div 1000)
        \o (IF ms % 1000 = 0 THEN ""
            ELSE "." \o DropTrailingZeros(ThreeDigits(ms % 1000)))

\* The statuses the handlers set
ProcessingPdf == UploadStatus("processing", 50, "Extracting text from PDF...")
ResumeProcessed == UploadStatus("complete", 100, "Resume processed successfully!")
StartingAnalysis == UploadStatus("analyzing", 10, "Starting AI analysis...")
AnalysisComplete(processingTime) ==
    UploadStatus("complete", 100,
                 "Analysis complete! (" \o SecondsText(processingTime) \o "s)")
ErrorStatus(message) == UploadStatus("error", 0, message)

\* A handler call suspended at an await, with the resume of its closure
Await(call, at, closureResume) ==
    [call |-> call, at |-> at, resume |-> closureResume]

\* A callback setTimeout scheduled
Timeout(call, to) == [call |-> call, to |-> to]

\* The updater the interval runs every two seconds (lines 103-112)
ProgressUpdate(prev) ==
    IF prev.progress < 90
    THEN [prev EXCEPT !.progress = prev.progress + 10,
                      !.message = IF prev.progress < 50
                                  THEN "Analyzing resume structure..."
                                  ELSE "Generating tailored feedback..."]
    ELSE prev

\* What the uploader hands to handleResumeUpload
PageResume(type, content) ==
    [present |-> TRUE, type |-> type, content |-> content]

\* What the text area of the uploader holds
TextInputs == {"", "  Jane Doe, engineer ", " " \o ScenarioText \o "\n"}

\* btoa of the bytes of the selected file (lines 365-368)
SelectedFileBase64 == "JVBERi0="

\* How the json() of a response ends: it rejects, the body not being JSON,
\* or gives the result.
Rejected(message) == [kind |-> "rejects", message |-> message]
Replied(result) == [kind |-> "json", result |-> result]

ParseResult(success, text, errorText) ==
    [success |-> success, text |-> text, error |-> errorText]
ParseReplies ==
    {Rejected("Unexpected end of JSON input"),
     Replied(ParseResult(TRUE, "Jane Doe engineer", "")),
     Replied(ParseResult(FALSE, "", "File is not a valid PDF format")),
     Replied(ParseResult(FALSE, "", ""))}

FetchErrors == {"Failed to fetch"}

AnalysisResult(success, hasAnalysis, errorText, processingTime) ==
    [success |-> success, analysis |-> [present |-> hasAnalysis],
     error |-> errorText, processingTime |-> processingTime]
JsonReplies ==
    {Rejected("Unexpected token < in JSON at position 0"),
     Replied(AnalysisResult(TRUE, TRUE, "", 12000)),
     Replied(AnalysisResult(TRUE, TRUE, "", 1250)),
     Replied(AnalysisResult(TRUE, FALSE, "", 0)),
     Replied(AnalysisResult(FALSE, FALSE,
                            "AI service is temporarily unavailable. Please try again in a few moments.",
                            30)),
     Replied(AnalysisResult(FALSE, FALSE, "", 0))}

\* a || b of two strings
OrElse(a, b) == IF a = "" THEN b ELSE a

PageInit ==
    /\ apiKey = Undefined
    /\ AnalyzerIdle
    /\ PostIdle
    /\ PureIdle
    /\ PageIdle

\* The uploader is rendered on the upload step, and its buttons are
\* disabled unless the status is idle (lines 216-221, 481-487, 513-519).
UploaderEnabled == currentStep = "upload" /\ uploadStatus.status = "idle"

\* handleResumeUpload up to its first await, or to its end for a pasted
\* text (lines 24-49 and 64-75).  The handler looks at neither the step
\* nor the status.
HandleResumeUpload(uploaded) ==
    /\ started < MaxHandlerCalls
    /\ started' = started + 1
    /\ pageResume' = uploaded
    /\ IF uploaded.type = "pdf"
       THEN /\ uploadStatus' = ProcessingPdf
            /\ awaits' = awaits \cup {Await(started + 1, "parse", uploaded)}
            /\ UNCHANGED timeouts
       ELSE /\ uploadStatus' = ResumeProcessed
            /\ timeouts' = timeouts \cup {Timeout(started + 1, "role-selection")}
            /\ UNCHANGED awaits
    /\ UNCHANGED <<currentStep, pageAnalysis, progressIntervals>>
    /\ UNCHANGED <<apiKey, pc, resumeInput, jobRole, openaiCalls, rawAnalysis,
                   normalized, analysis, error, postVars, pureVars>>

\* handleTextSubmit (lines 386-403), from the button of lines 513-519,
\* which is disabled for a text shorter than 100 characters once trimmed:
\* handleResumeUpload runs within the click.
HandleTextSubmit(textInput) ==
    /\ UploaderEnabled
    /\ Len(Trim(textInput)) >= 100
    /\ started + fileReads < MaxHandlerCalls
    /\ HandleResumeUpload(PageResume("text", Trim(textInput)))
    /\ UNCHANGED fileReads

\* handleFileUpload (lines 359-384), from the button shown for a selected
\* file (lines 479-489): the read is started and the handler returns.  The
\* status stays idle, so the buttons stay enabled until onload runs.
HandleFileUpload ==
    /\ UploaderEnabled
    /\ started + fileReads < MaxHandlerCalls
    /\ fileReads' = fileReads + 1
    /\ UNCHANGED <<currentStep, pageResume, pageAnalysis, uploadStatus,
                   progressIntervals, awaits, timeouts, started>>
    /\ UNCHANGED <<apiKey, pc, resumeInput, jobRole, openaiCalls, rawAnalysis,
                   normalized, analysis, error, postVars, pureVars>>

\* reader.onload (lines 364-377): the read has ended and the callback calls
\* onResumeUpload, whatever the step and the status have become since the
\* click.
ReaderOnload ==
    /\ fileReads > 0
    /\ fileReads' = fileReads - 1
    /\ HandleResumeUpload(PageResume("pdf", SelectedFileBase64))

\* The fetch of handleResumeUpload resolves: the handler calls json() on
\* the response and awaits it (lines 41-52).
ParseFetchResolves(a) ==
    /\ a \in awaits
    /\ a.at = "parse"
    /\ awaits' = (awaits \ {a}) \cup {Await(a.call, "parseJson", a.resume)}
    /\ UNCHANGED <<currentStep, pageResume, pageAnalysis, uploadStatus,
                   progressIntervals, timeouts, started>>
    /\ UNCHANGED <<apiKey, pc, resumeInput, jobRole, openaiCalls, rawAnalysis,
                   normalized, analysis, error, postVars, pureVars, fileReads>>

\* The fetch of handleResumeUpload rejects: the catch runs (lines 41 and
\* 77-84).
ParseFetchRejects(a, message) ==
    /\ a \in awaits
    /\ a.at = "parse"
    /\ awaits' = awaits \ {a}
    /\ uploadStatus' = ErrorStatus(message)
    /\ UNCHANGED <<currentStep, pageResume, pageAnalysis, progressIntervals,
                   timeouts, started>>
    /\ UNCHANGED <<apiKey, pc, resumeInput, jobRole, openaiCalls, rawAnalysis,
                   normalized, analysis, error, postVars, pureVars, fileReads>>

\* handleResumeUpload after its await of json() (lines 52-84)
ParseJsonReturns(a, reply) ==
    /\ a \in awaits
    /\ a.at = "parseJson"
    /\ awaits' = awaits \ {a}
    /\ IF reply.kind = "rejects"
       THEN /\ uploadStatus' = ErrorStatus(reply.message)
            /\ UNCHANGED <<pageResume, timeouts>>
       ELSE IF ~reply.result.success
       THEN /\ uploadStatus' =
                   ErrorStatus(OrElse(reply.result.error, "Failed to parse PDF"))
            /\ UNCHANGED <<pageResume, timeouts>>
       ELSE /\ pageResume' = [a.resume EXCEPT !.content = reply.result.text]
            /\ uploadStatus' = ResumeProcessed
            /\ timeouts' = timeouts \cup {Timeout(a.call, "role-selection")}
    /\ UNCHANGED <<currentStep, pageAnalysis, progressIntervals, started>>
    /\ UNCHANGED <<apiKey, pc, resumeInput, jobRole, openaiCalls, rawAnalysis,
                   normalized, analysis, error, postVars, pureVars, fileReads>>

\* The callback of lines 71-74
ToRoleSelection(t) ==
    /\ t \in timeouts
    /\ t.to = "role-selection"
    /\ timeouts' = timeouts \ {t}
    /\ currentStep' = "role-selection"
    /\ uploadStatus' = IdleStatus
    /\ UNCHANGED <<pageResume, pageAnalysis, progressIntervals, awaits, started>>
    /\ UNCHANGED <<apiKey, pc, resumeInput, jobRole, openaiCalls, rawAnalysis,
                   normalized, analysis, error, postVars, pureVars, fileReads>>

\* handleRoleSelection up to its await of fetch (lines 87-125).  The role
\* selector is shown on the role-selection step (lines 223-228); the role
\* chosen goes into the request only.
HandleRoleSelection ==
    /\ currentStep = "role-selection"
    /\ started < MaxHandlerCalls
    /\ IF ~pageResume.present
       THEN UNCHANGED <<currentStep, uploadStatus, progressIntervals, awaits,
                        started>>
       ELSE /\ currentStep' = "analyzing"
            /\ uploadStatus' = StartingAnalysis
            /\ progressIntervals' = progressIntervals \cup {started + 1}
            /\ awaits' = awaits \cup {Await(started + 1, "fetch", pageResume)}
            /\ started' = started + 1
    /\ UNCHANGED <<pageResume, pageAnalysis, timeouts>>
    /\ UNCHANGED <<apiKey, pc, resumeInput, jobRole, openaiCalls, rawAnalysis,
                   normalized, analysis, error, postVars, pureVars, fileReads>>

\* The interval of a call fires (lines 102-113)
ProgressTick(call) ==
    /\ call \in progressIntervals
    /\ uploadStatus' = ProgressUpdate(uploadStatus)
    /\ UNCHANGED <<currentStep, pageResume, pageAnalysis, progressIntervals,
                   awaits, timeouts, started>>
    /\ UNCHANGED <<apiKey, pc, resumeInput, jobRole, openaiCalls, rawAnalysis,
                   normalized, analysis, error, postVars, pureVars, fileReads>>

\* The fetch of handleRoleSelection resolves: the interval is cleared and
\* the body awaited (lines 127-129).
FetchResolves(a) ==
    /\ a \in awaits
    /\ a.at = "fetch"
    /\ progressIntervals' = progressIntervals \ {a.call}
    /\ awaits' = (awaits \ {a}) \cup {Await(a.call, "json", a.resume)}
    /\ UNCHANGED <<currentStep, pageResume, pageAnalysis, uploadStatus,
                   timeouts, started>>
    /\ UNCHANGED <<apiKey, pc, resumeInput, jobRole, openaiCalls, rawAnalysis,
                   normalized, analysis, error, postVars, pureVars, fileReads>>

\* The fetch of handleRoleSelection rejects: the catch (lines 147-154) runs,
\* the statements after the await do not.
FetchRejects(a, message) ==
    /\ a \in awaits
    /\ a.at = "fetch"
    /\ awaits' = awaits \ {a}
    /\ uploadStatus' = ErrorStatus(message)
    /\ UNCHANGED <<currentStep, pageResume, pageAnalysis, progressIntervals,
                   timeouts, started>>
    /\ UNCHANGED <<apiKey, pc, resumeInput, jobRole, openaiCalls, rawAnalysis,
                   normalized, analysis, error, postVars, pureVars, fileReads>>

\* handleRoleSelection after its await of json() (lines 129-154)
JsonReturns(a, reply) ==
    /\ a \in awaits
    /\ a.at = "json"
    /\ awaits' = awaits \ {a}
    /\ IF reply.kind = "rejects"
       THEN /\ uploadStatus' = ErrorStatus(reply.message)
            /\ UNCHANGED <<pageAnalysis, timeouts>>
       ELSE IF ~reply.result.success \/ ~reply.result.analysis.present
       THEN /\ uploadStatus' =
                   ErrorStatus(OrElse(reply.result.error, "Analysis failed"))
            /\ UNCHANGED <<pageAnalysis, timeouts>>
       ELSE /\ pageAnalysis' = reply.result.analysis
            /\ uploadStatus' = AnalysisComplete(reply.result.processingTime)
            /\ timeouts' = timeouts \cup {Timeout(a.call, "results")}
    /\ UNCHANGED <<currentStep, pageResume, progressIntervals, started>>
    /\ UNCHANGED <<apiKey, pc, resumeInput, jobRole, openaiCalls, rawAnalysis,
                   normalized, analysis, error, postVars, pureVars, fileReads>>

\* The callback of lines 143-145
ToResults(t) ==
    /\ t \in timeouts
    /\ t.to = "results"
    /\ timeouts' = timeouts \ {t}
    /\ currentStep' = "results"
    /\ UNCHANGED <<pageResume, pageAnalysis, uploadStatus, progressIntervals,
                   awaits, started>>
    /\ UNCHANGED <<apiKey, pc, resumeInput, jobRole, openaiCalls, rawAnalysis,
                   normalized, analysis, error, postVars, pureVars, fileReads>>

\* The Try Again button of the error panel (lines 262-276)
TryAgain ==
    /\ uploadStatus.status = "error"
    /\ IF currentStep = "analyzing" /\ pageResume.present
       THEN currentStep' = "role-selection"
       ELSE UNCHANGED currentStep
    /\ uploadStatus' = IdleStatus
    /\ UNCHANGED <<pageResume, pageAnalysis, progressIntervals, awaits,
                   timeouts, started>>
    /\ UNCHANGED <<apiKey, pc, resumeInput, jobRole, openaiCalls, rawAnalysis,
                   normalized, analysis, error, postVars, pureVars, fileReads>>

\* handleStartOver (lines 157-162), from the error panel (lines 255-261) or
\* from the results (lines 236-241)
HandleStartOver ==
    /\ \/ uploadStatus.status = "error"
       \/ currentStep = "results" /\ pageAnalysis.present
    /\ currentStep' = "upload"
    /\ pageResume' = NoResume
    /\ pageAnalysis' = NoPageAnalysis
    /\ uploadStatus' = IdleStatus
    /\ UNCHANGED <<progressIntervals, awaits, timeouts, started>>
    /\ UNCHANGED <<apiKey, pc, resumeInput, jobRole, openaiCalls, rawAnalysis,
                   normalized, analysis, error, postVars, pureVars, fileReads>>

PageNext ==
    \/ \E textInput \in TextInputs : HandleTextSubmit(textInput)
    \/ HandleFileUpload
    \/ ReaderOnload
    \/ \E a \in awaits : ParseFetchResolves(a)
    \/ \E a \in awaits, message \in FetchErrors : ParseFetchRejects(a, message)
    \/ \E a \in awaits, reply \in ParseReplies : ParseJsonReturns(a, reply)
    \/ \E t \in timeouts : ToRoleSelection(t)
    \/ HandleRoleSelection
    \/ \E call \in progressIntervals : ProgressTick(call)
    \/ \E a \in awaits : FetchResolves(a)
    \/ \E a \in awaits, message \in FetchErrors : FetchRejects(a, message)
    \/ \E a \in awaits, reply \in JsonReplies : JsonReturns(a, reply)
    \/ \E t \in timeouts : ToResults(t)
    \/ TryAgain
    \/ HandleStartOver

PageSpec == PageInit /\ [][PageNext]_vars

\* An analysis request has ended and set the status
AnalysisEnded == uploadStatus.status \in {"error", "complete"}

\* C30: the progress timer is stopped whenever the analysis request ends:
\* once uploadStatus is 'error' or 'complete' no timer tick changes its
\* progress or message, and no timer of an earlier attempt is running when
\* a new attempt starts.
C30_TimerStoppedWhenRequestEnds ==
    [][/\ \A call \in progressIntervals :
              (AnalysisEnded /\ ProgressTick(call)) =>
                  /\ uploadStatus'.progress = uploadStatus.progress
                  /\ uploadStatus'.message = uploadStatus.message
       /\ (HandleRoleSelection /\ started' > started) =>
              progressIntervals = {}]_vars


============================================================================
